---- MODULE Spec2Model ----
(***************************************************************************)
(* Model of the resource-allocation optimisation core of the energy        *)
(* project: DynamicProgrammingOptimizer (dynamic_programmig.py).           *)
(* Money is counted in whole currency units; the only non-integer term of  *)
(* the source, (new_capacity ** 1.5) * 1000, is rounded down to a unit.    *)
(***************************************************************************)
EXTENDS Integers, Sequences, FiniteSets, TLC

(***************************************************************************)
(* Bounds of the model                                                     *)
(***************************************************************************)
MaxPeriods == 3
MaxCapacity == 2
MaxDemand == 3
LeadIn == 2
LongHorizon == 265
TieHorizon == 755
MaxProjects == 2
MaxCost == 2
MaxBenefit == 2
MaxBudget == 3
MaxEquipment == 2
MaxHorizon == 3
MaxCalls == 2
SeqLen == 2
SeqBudget == 3
SharedLen == 2
SharedBudget == 2
MaxGreedyCalls == 2
GreedyLen == 2
GreedySupply == 2
AllocLen == 2
AllocAmount == 2
AllocSupply == 3

\* largest max_size a decorator is constructed with
MaxSize == 2

\* largest ttl, in clock units, a decorator is constructed with
MaxTtl == 2

\* most clock units that pass between two readings of time.time()
MaxTick == 1

\* last clock reading considered
MaxTime == 3

\* most calls of the wrapper considered
MaxMemoCalls == 4

(***************************************************************************)
(* Program constants                                                       *)
(***************************************************************************)
\* float('inf'): larger than every cost the model can reach
inf == 2147483647
\* demo_dynamic_programming: time_periods, max_capacity, demand_forecast
demo_time_periods == 5
demo_max_capacity == 20
demo_demand_forecast == <<8, 12, 15, 18, 16>>
\* demo_dynamic_programming: projects and budget
demo_projects ==
  << <<5000000, 8000000, "Solar Atacama", "Renovable">>,
     <<3000000, 4500000, "Eolico Patagonia", "Renovable">>,
     <<8000000, 10000000, "Hidroelectrica Andes", "Renovable">>,
     <<2000000, 2800000, "Biomasa Costera", "Renovable">>,
     <<6000000, 7200000, "Geotermica Volcan", "Renovable">>,
     <<4000000, 5000000, "Solar Techo Urbano", "Distribuida">> >>
demo_budget == 15000000
\* demo_dynamic_programming: equipment_list, maintenance_costs, time_horizon
demo_equipment_list ==
  << <<"Turbina A", "Hidraulica", 2>>, <<"Generador B", "Termico", 1>>,
     <<"Transformador C", "Distribucion", 3>> >>
demo_maintenance_costs ==
  ("Hidraulica" :> 50000) @@ ("Termico" :> 30000) @@ ("Distribucion" :> 20000)
demo_time_horizon == 4

(***************************************************************************)
(* Python helpers                                                          *)
(***************************************************************************)
\* float addition with an infinite operand
plus(a, b) == IF a = inf \/ b = inf THEN inf ELSE a + b

\* floor(1000 * n ** 1.5) for n = 0 .. 25
pow15x1000 ==
  <<0, 1000, 2828, 5196, 8000, 11180, 14696, 18520, 22627, 27000, 31622,
    36482, 41569, 46872, 52383, 58094, 64000, 70092, 76367, 82819, 89442,
    96234, 103189, 110304, 117575, 125000>>

(***************************************************************************)
(* optimize_capacity_planning                                              *)
(***************************************************************************)
\* construction_cost with its test inverted
construction_cost_inverted(new_capacity) ==
  IF new_capacity # 0 THEN 0
  ELSE 1000000 + (new_capacity * 50000) + pow15x1000[new_capacity + 1]

construction_cost(new_capacity) ==
  IF new_capacity = 0 THEN 0
  ELSE 1000000 + (new_capacity * 50000) + pow15x1000[new_capacity + 1]

operational_cost(capacity, demand) ==
  IF capacity >= demand
  THEN demand * 100 + (capacity - demand) * 20
  ELSE capacity * 100 + (demand - capacity) * 500

\* range(max_capacity): the last capacity is left out
cap_range_short(max_capacity) == 0 .. (max_capacity - 1)

\* range(max_capacity + 1)
cap_range(max_capacity) == 0 .. max_capacity

\* (period, cap) in dp: the table is kept as one row per period, a row
\* maps each capacity that has an entry to its value
has_key(table, period, cap) ==
  /\ period + 1 \in DOMAIN table
  /\ cap \in DOMAIN table[period + 1]

\* len(dp); the rows lo .. hi are counted in halves, which keeps the
\* evaluation shallow on long horizons (so do the loops over periods below)
RECURSIVE count_entries(_, _, _)
count_entries(table, lo, hi) ==
  IF lo > hi THEN 0
  ELSE IF lo = hi THEN Cardinality(DOMAIN table[lo])
  ELSE count_entries(table, lo, (lo + hi) \div 2)
         + count_entries(table, (lo + hi) \div 2 + 1, hi)

table_size(table) == count_entries(table, 1, Len(table))

\* period 0: dp[(0, cap)] and decisions[(0, cap)] for every cap
init_period0(max_capacity, demand_forecast) ==
  IF cap_range(max_capacity) # {} /\ Len(demand_forecast) = 0
  THEN [err |-> "IndexError", dp |-> <<>>, decisions |-> <<>>]
  ELSE [err |-> "none",
        dp |-> << [cap \in cap_range(max_capacity) |->
                     construction_cost(cap)
                       + operational_cost(cap, demand_forecast[1])] >>,
        decisions |-> << [cap \in cap_range(max_capacity) |-> cap] >>]

\* every candidate replaces the best one: the last prev_cap stays
improves_always(total_cost, min_cost) == TRUE

\* the test that replaces the best candidate: strict, the first minimum stays
improves(total_cost, min_cost) == total_cost < min_cost

\* the loop over prev_cap in range(current_cap + 1) for one cell
RECURSIVE scan_prev(_, _, _, _, _, _, _)
scan_prev(dp, period, current_cap, op_cost, prev_cap, min_cost, best_decision) ==
  IF prev_cap > current_cap
  THEN [cost |-> min_cost, decision |-> best_decision]
  ELSE IF ~has_key(dp, period - 1, prev_cap)
  THEN scan_prev(dp, period, current_cap, op_cost, prev_cap + 1,
                 min_cost, best_decision)
  ELSE LET expansion == current_cap - prev_cap
           total_cost == plus(plus(dp[period][prev_cap],
                                   construction_cost(expansion)), op_cost)
       IN IF improves(total_cost, min_cost)
          THEN scan_prev(dp, period, current_cap, op_cost, prev_cap + 1,
                         total_cost, prev_cap)
          ELSE scan_prev(dp, period, current_cap, op_cost, prev_cap + 1,
                         min_cost, best_decision)

\* a row whose values are computed when it is written, as dict entries are
stored(row) == row @@ << >>

\* one pass of the loop over period: the row of dp and of decisions
fill_period(tbl, period, max_capacity, demand_forecast) ==
  IF cap_range(max_capacity) # {} /\ period + 1 > Len(demand_forecast)
  THEN [tbl EXCEPT !.err = "IndexError"]
  ELSE LET cells == [current_cap \in cap_range(max_capacity) |->
                       scan_prev(tbl.dp, period, current_cap,
                                 operational_cost(current_cap,
                                                  demand_forecast[period + 1]),
                                 0, inf, 0)]
       IN [err |-> "none",
           dp |-> Append(tbl.dp, stored(
                         [c \in cap_range(max_capacity) |-> cells[c].cost])),
           decisions |-> Append(tbl.decisions, stored(
                         [c \in cap_range(max_capacity) |-> cells[c].decision]))]

\* the loop over period in lo .. hi, in ascending order; an exception ends it
RECURSIVE fill_table(_, _, _, _, _)
fill_table(tbl, lo, hi, max_capacity, demand_forecast) ==
  IF tbl.err # "none" \/ lo > hi THEN tbl
  ELSE IF lo = hi THEN fill_period(tbl, lo, max_capacity, demand_forecast)
  ELSE fill_table(
         fill_table(tbl, lo, (lo + hi) \div 2, max_capacity, demand_forecast),
         (lo + hi) \div 2 + 1, hi, max_capacity, demand_forecast)

\* an equal cost replaces the best terminal capacity too
improves_final_or_ties(cost, final_min_cost) == cost <= final_min_cost

\* the test that replaces the best terminal capacity
improves_final(cost, final_min_cost) == cost < final_min_cost

\* the loop over cap in range(max_capacity + 1) on the last period
RECURSIVE scan_final(_, _, _, _, _, _)
scan_final(dp, last, cap, max_capacity, final_min_cost, final_capacity) ==
  IF cap \notin cap_range(max_capacity)
  THEN [err |-> "none", final_min_cost |-> final_min_cost,
        final_capacity |-> final_capacity]
  ELSE IF ~has_key(dp, last, cap)
  THEN [err |-> "KeyError", final_min_cost |-> final_min_cost,
        final_capacity |-> final_capacity]
  ELSE IF improves_final(dp[last + 1][cap], final_min_cost)
  THEN scan_final(dp, last, cap + 1, max_capacity, dp[last + 1][cap], cap)
  ELSE scan_final(dp, last, cap + 1, max_capacity, final_min_cost,
                  final_capacity)

\* one pass of the while loop that walks the decisions back; the entries
\* are collected in period order (the source appends and then reverses)
backtrack_period(bt, decisions, demand_forecast, current_period) ==
  IF current_period # 0
     /\ ~has_key(decisions, current_period, bt.current_capacity)
  THEN [bt EXCEPT !.err = "KeyError"]
  ELSE IF current_period + 1 > Len(demand_forecast)
  THEN [bt EXCEPT !.err = "IndexError"]
  ELSE LET prev_capacity ==
             IF current_period = 0 THEN bt.current_capacity
             ELSE decisions[current_period + 1][bt.current_capacity]
           expansion == IF current_period = 0 THEN bt.current_capacity
                        ELSE bt.current_capacity - prev_capacity
           entry == [period |-> current_period,
                     total_capacity |-> prev_capacity + expansion,
                     expansion |-> expansion,
                     demand |-> demand_forecast[current_period + 1],
                     construction_cost |-> construction_cost(expansion),
                     operational_cost |->
                       operational_cost(prev_capacity + expansion,
                                        demand_forecast[current_period + 1])]
       IN [err |-> "none", current_capacity |-> prev_capacity,
           plan |-> <<entry>> \o bt.plan]

\* the while loop for current_period = hi down to lo; an exception ends it
RECURSIVE backtrack(_, _, _, _, _)
backtrack(bt, decisions, demand_forecast, hi, lo) ==
  IF bt.err # "none" \/ hi < lo THEN bt
  ELSE IF hi = lo THEN backtrack_period(bt, decisions, demand_forecast, hi)
  ELSE backtrack(
         backtrack(bt, decisions, demand_forecast, hi, (lo + hi) \div 2 + 1),
         decisions, demand_forecast, (lo + hi) \div 2, lo)

\* total_capacity = plan['expansion']: the sum is not carried on
running_total_assigned(total_capacity, expansion) == expansion

\* total_capacity += plan['expansion']
running_total(total_capacity, expansion) == total_capacity + expansion

\* the entries keep the total_capacity written while walking back
recalculate_skipped(rc, lo, hi) == rc

\* the loop that rewrites total_capacity of the entries lo .. hi
RECURSIVE recalculate(_, _, _)
recalculate(rc, lo, hi) ==
  IF lo > Len(rc.plan) \/ lo > hi THEN rc
  ELSE IF lo = hi
  THEN LET t == running_total(rc.total_capacity, rc.plan[lo].expansion)
       IN [plan |-> [rc.plan EXCEPT ![lo].total_capacity = t],
           total_capacity |-> t]
  ELSE recalculate(recalculate(rc, lo, (lo + hi) \div 2),
                   (lo + hi) \div 2 + 1, hi)

capacity_failure(err, entries) ==
  [outcome |-> err, optimal_plan |-> <<>>, total_cost |-> 0,
   final_capacity |-> 0, algorithm |-> "none", dp_table_size |-> entries]

optimize_capacity_planning(time_periods, max_capacity, demand_forecast) ==
  LET t0 == init_period0(max_capacity, demand_forecast)
      tbl == fill_table(t0, 1, time_periods - 1, max_capacity, demand_forecast)
      fin == scan_final(tbl.dp, time_periods - 1, 0, max_capacity, inf, 0)
      bt == backtrack([err |-> "none", current_capacity |-> fin.final_capacity,
                       plan |-> <<>>],
                      tbl.decisions, demand_forecast, time_periods - 1, 0)
  IN IF tbl.err # "none" THEN capacity_failure(tbl.err, table_size(tbl.dp))
     ELSE IF fin.err # "none" THEN capacity_failure(fin.err, table_size(tbl.dp))
     ELSE IF bt.err # "none" THEN capacity_failure(bt.err, table_size(tbl.dp))
     ELSE [outcome |-> "plan",
           optimal_plan |->
             recalculate([plan |-> bt.plan, total_capacity |-> 0],
                         1, Len(bt.plan)).plan,
           total_cost |-> fin.final_min_cost,
           final_capacity |-> fin.final_capacity,
           algorithm |-> "dynamic_programming_capacity",
           dp_table_size |-> table_size(tbl.dp)]

(***************************************************************************)
(* knapsack_energy_projects (under lru_cache) and optimize_energy_projects *)
(***************************************************************************)
cache_key_without_projects(budget, project_index, projects_tuple) ==
  <<budget, project_index>>

cache_key_without_budget(budget, project_index, projects_tuple) ==
  <<project_index, projects_tuple>>

\* the key lru_cache builds from the arguments; self is the one optimizer
cache_key(budget, project_index, projects_tuple) ==
  <<budget, project_index, projects_tuple>>

\* the inclusion wins on an equal benefit too
include_wins_or_ties(benefit_with_current, benefit_without) ==
  benefit_with_current >= benefit_without

\* the value returned by the tie test: the inclusion wins only when greater
include_wins(benefit_with_current, benefit_without) ==
  benefit_with_current > benefit_without

\* the base case of the recursion
base_case(budget, project_index) == project_index = 0 \/ budget = 0

\* knapsack_energy_projects is the cached function: a hit returns the stored
\* value, a miss runs the body and stores what it returns. Both return the
\* value, a pair <<benefit, selected names>>, and the cache afterwards.
\* The cache holds fewer than its maxsize of 1000 entries for all the inputs
\* below, so no entry is evicted.
RECURSIVE knapsack_energy_projects(_, _, _, _)
RECURSIVE knapsack_body(_, _, _, _)
knapsack_energy_projects(cache, budget, project_index, projects_tuple) ==
  LET key == cache_key(budget, project_index, projects_tuple)
  IN IF key \in DOMAIN cache
     THEN [value |-> cache[key], cache |-> cache]
     ELSE LET r == knapsack_body(cache, budget, project_index, projects_tuple)
          IN [value |-> r.value, cache |-> (key :> r.value) @@ r.cache]

knapsack_body(cache, budget, project_index, projects_tuple) ==
  IF base_case(budget, project_index)
  THEN [value |-> <<0, <<>> >>, cache |-> cache]
  ELSE LET costo == projects_tuple[project_index][1]
           beneficio == projects_tuple[project_index][2]
           nombre == projects_tuple[project_index][3]
       IN IF costo > budget
          THEN knapsack_energy_projects(cache, budget, project_index - 1,
                                        projects_tuple)
          ELSE LET without == knapsack_energy_projects(
                                cache, budget, project_index - 1, projects_tuple)
                   with == knapsack_energy_projects(
                             without.cache, budget - costo, project_index - 1,
                             projects_tuple)
                   benefit_with_current == with.value[1] + beneficio
               IN IF include_wins(benefit_with_current, without.value[1])
                  THEN [value |-> <<benefit_with_current,
                                    Append(with.value[2], nombre)>>,
                        cache |-> with.cache]
                  ELSE [value |-> without.value, cache |-> with.cache]

\* tuple((costo, beneficio, nombre) for costo, beneficio, nombre, _ in projects)
to_projects_tuple(projects) ==
  [i \in 1 .. Len(projects) |->
     <<projects[i][1], projects[i][2], projects[i][3]>>]

\* the inner loop of the details: the first project that carries the name
\* (0 when the loop ends without a match)
first_named(projects, project_name) ==
  IF \E i \in 1 .. Len(projects) : projects[i][3] = project_name
  THEN CHOOSE i \in 1 .. Len(projects) :
         /\ projects[i][3] = project_name
         /\ \A j \in 1 .. (i - 1) : projects[j][3] # project_name
  ELSE 0

\* a quotient a / b is kept as the pair <<a, b>>
quotient(a, b) == <<a, b>>

project_detail(project) ==
  [nombre |-> project[3], tipo |-> project[4], costo |-> project[1],
   beneficio |-> project[2],
   roi |-> IF project[1] > 0 THEN quotient(project[2], project[1])
           ELSE quotient(0, 1)]

RECURSIVE sum_costo(_, _)
sum_costo(selected_details, i) ==
  IF i > Len(selected_details) THEN 0
  ELSE selected_details[i].costo + sum_costo(selected_details, i + 1)

\* the outer loop of the details, over the names the recursion returned
RECURSIVE details(_, _, _)
details(projects, selected_projects, n) ==
  IF n > Len(selected_projects) THEN << >>
  ELSE LET i == first_named(projects, selected_projects[n])
           rest == details(projects, selected_projects, n + 1)
       IN IF i = 0 THEN rest ELSE <<project_detail(projects[i])>> \o rest

\* lines 212-244: the details of the selection and the result record (or the
\* exception raised) once the recursion has returned max_benefit and the names
energy_result(projects, total_budget, max_benefit, selected_projects) ==
  LET selected_details == details(projects, selected_projects, 1)
      total_cost == sum_costo(selected_details, 1)
  IN IF total_budget = 0
     THEN [outcome |-> "ZeroDivisionError"]
     ELSE [outcome |-> "result",
           selected_projects |-> selected_details,
           total_benefit |-> max_benefit,
           total_cost |-> total_cost,
           budget_used |-> quotient(total_cost * 100, total_budget),
           remaining_budget |-> total_budget - total_cost,
           avg_roi |-> IF total_cost > 0
                       THEN quotient(max_benefit, total_cost)
                       ELSE quotient(0, 1),
           algorithm |-> "dynamic_programming_knapsack"]

\* returns the result record (or the exception raised) and the cache afterwards
optimize_energy_projects(cache, projects, total_budget) ==
  LET projects_tuple == to_projects_tuple(projects)
      k == knapsack_energy_projects(cache, total_budget, Len(projects),
                                    projects_tuple)
  IN [result |-> energy_result(projects, total_budget, k.value[1], k.value[2]),
      cache |-> k.cache]

(***************************************************************************)
(* optimize_maintenance_schedule                                           *)
(***************************************************************************)
\* states: 0 = nuevo .. 4 = critico
states == 5

max2(a, b) == IF a >= b THEN a ELSE b
min2(a, b) == IF a <= b THEN a ELSE b

\* the health is left as it is, whatever the action
degradation_prob_stuck(current_state, action) == current_state

degradation_prob_unclamped(current_state, action) ==
  IF action = "mantener" THEN current_state - 1 ELSE current_state + 1

degradation_prob(current_state, action) ==
  IF action = "mantener"
  THEN max2(0, current_state - 1)
  ELSE min2(states - 1, current_state + 1)

cost_function(state, action, equipment_type, maintenance_costs) ==
  LET base_cost == IF equipment_type \in DOMAIN maintenance_costs
                   THEN maintenance_costs[equipment_type] ELSE 1000
  IN IF action = "mantener" THEN base_cost * (state + 1) ELSE state * 200

\* for action in ['mantener']: deferring is never tried
actions_tried_maintain_only == <<"mantener">>

\* for action in ['mantener', 'no_mantener']
actions_tried == <<"mantener", "no_mantener">>

\* an equal total replaces the best action too: the last minimum stays
improves_action_or_ties(total_cost, min_cost) == total_cost <= min_cost

\* the test that replaces the best action
improves_action(total_cost, min_cost) == total_cost < min_cost

\* dict.get(key, default) on a table kept as period -> (state -> value)
get(table, t, state, default) ==
  IF t \in DOMAIN table /\ state \in DOMAIN table[t]
  THEN table[t][state] ELSE default

\* the loop over the two actions for one (t, state)
RECURSIVE scan_actions(_, _, _, _, _, _, _, _)
scan_actions(dp, t, state, eq_type, maintenance_costs, i, min_cost, best_action) ==
  IF i > Len(actions_tried)
  THEN [cost |-> min_cost, action |-> best_action]
  ELSE LET action == actions_tried[i]
           immediate_cost == cost_function(state, action, eq_type,
                                           maintenance_costs)
           next_state == degradation_prob(state, action)
           future_cost == get(dp, t + 1, next_state, 0)
           total_cost == plus(immediate_cost, future_cost)
       IN IF improves_action(total_cost, min_cost)
          THEN scan_actions(dp, t, state, eq_type, maintenance_costs, i + 1,
                            total_cost, action)
          ELSE scan_actions(dp, t, state, eq_type, maintenance_costs, i + 1,
                            min_cost, best_action)

\* the tables of one equipment unit: t = time_horizon - 2 down to 0
RECURSIVE backward(_, _, _, _)
backward(tbl, t, eq_type, maintenance_costs) ==
  IF t < 0 THEN tbl
  ELSE LET cells == [state \in 0 .. (states - 1) |->
                       scan_actions(tbl.dp, t, state, eq_type,
                                    maintenance_costs, 1, inf, "no_mantener")]
       IN backward(
            [dp |-> (t :> [st \in 0 .. (states - 1) |-> cells[st].cost])
                      @@ tbl.dp,
             decisions |->
               (t :> [st \in 0 .. (states - 1) |-> cells[st].action])
                 @@ tbl.decisions],
            t - 1, eq_type, maintenance_costs)

\* dp and decisions of one equipment unit, the final period included
equipment_tables(eq_type, time_horizon, maintenance_costs) ==
  backward(
    [dp |-> (time_horizon - 1) :> [st \in 0 .. (states - 1) |-> 0],
     decisions |->
       (time_horizon - 1) :> [st \in 0 .. (states - 1) |-> "no_mantener"]],
    time_horizon - 2, eq_type, maintenance_costs)

RECURSIVE forward_short(_, _, _, _, _, _)
forward_short(decisions, t, time_horizon, current_state, eq_type, maintenance_costs) ==
  IF t > time_horizon - 2 THEN <<>>
  ELSE LET action == get(decisions, t, current_state, "no_mantener")
           cost == cost_function(current_state, action, eq_type,
                                 maintenance_costs)
       IN <<[period |-> t, state |-> current_state, action |-> action,
             cost |-> cost]>>
          \o forward_short(decisions, t + 1, time_horizon,
                           degradation_prob(current_state, action), eq_type,
                           maintenance_costs)

\* the forward walk of one equipment unit from period t
RECURSIVE forward(_, _, _, _, _, _)
forward(decisions, t, time_horizon, current_state, eq_type, maintenance_costs) ==
  IF t > time_horizon - 1 THEN <<>>
  ELSE LET action == get(decisions, t, current_state, "no_mantener")
           cost == cost_function(current_state, action, eq_type,
                                 maintenance_costs)
       IN <<[period |-> t, state |-> current_state, action |-> action,
             cost |-> cost]>>
          \o forward(decisions, t + 1, time_horizon,
                     degradation_prob(current_state, action), eq_type,
                     maintenance_costs)

RECURSIVE sum_cost(_, _)
sum_cost(schedule, i) ==
  IF i > Len(schedule) THEN 0
  ELSE schedule[i].cost + sum_cost(schedule, i + 1)

RECURSIVE sum_schedules(_, _)
sum_schedules(maintenance_schedule, i) ==
  IF i > Len(maintenance_schedule) THEN 0
  ELSE sum_cost(maintenance_schedule[i].schedule, 1)
         + sum_schedules(maintenance_schedule, i + 1)

\* every unit is costed at the rates of the first unit's type
unit_type_of_first(equipment_list, eq_idx) == equipment_list[1][2]

\* the eq_type the loops over enumerate(equipment_list) bind for eq_idx: the
\* tables are keyed by eq_idx, each unit has its own
unit_type(equipment_list, eq_idx) == equipment_list[eq_idx][2]

\* an equipment unit is the triple <<eq_name, eq_type, initial_state>>
optimize_maintenance_schedule(equipment_list, time_horizon, maintenance_costs) ==
  LET maintenance_schedule ==
        [eq_idx \in 1 .. Len(equipment_list) |->
           LET eq_name == equipment_list[eq_idx][1]
               eq_type == unit_type(equipment_list, eq_idx)
               initial_state == equipment_list[eq_idx][3]
               tbl == equipment_tables(eq_type, time_horizon, maintenance_costs)
           IN [equipment |-> eq_name, type |-> equipment_list[eq_idx][2],
               initial_state |-> initial_state,
               schedule |-> forward(tbl.decisions, 0, time_horizon,
                                    initial_state, eq_type, maintenance_costs)]]
  IN [outcome |-> "result",
      maintenance_schedule |-> maintenance_schedule,
      total_cost |-> sum_schedules(maintenance_schedule, 1),
      time_horizon |-> time_horizon,
      algorithm |-> "dynamic_programming_maintenance"]

(***************************************************************************)
(* GreedyEnergyOptimizer (greedy.py)                                       *)
(***************************************************************************)
\* sorted(seq, key=...): stable; less holds the pairs <<i, j>> of positions
\* whose keys are in strict order, key(seq[i]) < key(seq[j])
sorted(seq, less) ==
  LET n == Len(seq)
      rank(i) == Cardinality({j \in 1 .. n :
                                \/ <<j, i>> \in less
                                \/ (<<i, j>> \notin less /\ j < i)})
  IN [k \in 1 .. n |-> seq[CHOOSE i \in 1 .. n : rank(i) = k - 1]]

\* the pairs of positions of a list
positions(seq) == (1 .. Len(seq)) \X (1 .. Len(seq))

\* dict[key] = value
put(dict, key, value) == (key :> value) @@ dict

\* the record kept for a region (region, demanda, poblacion, prioridad)
region_with_efficiency(r) ==
  [region |-> r[1], demanda |-> r[2], poblacion |-> r[3], prioridad |-> r[4],
   eficiencia |-> quotient(r[2], r[3]),
   ratio_prioridad |-> IF r[2] > 0 THEN quotient(r[4] * r[3], r[2])
                       ELSE quotient(0, 1)]

\* the key (prioridad, eficiencia): the lower priority comes first
region_before_low_priority(a, b) ==
  \/ a.prioridad < b.prioridad
  \/ /\ a.prioridad = b.prioridad
     /\ a.demanda * b.poblacion < b.demanda * a.poblacion

\* key (-prioridad, eficiencia) of a comes before that of b; the two
\* populations are positive
region_before(a, b) ==
  \/ -a.prioridad < -b.prioridad
  \/ /\ a.prioridad = b.prioridad
     /\ a.demanda * b.poblacion < b.demanda * a.poblacion

RECURSIVE sum_demanda(_, _)
sum_demanda(regions, i) ==
  IF i > Len(regions) THEN 0
  ELSE regions[i].demanda + sum_demanda(regions, i + 1)

\* the loop over regions_sorted from its i-th element
RECURSIVE distribute(_, _, _)
distribute(regions_sorted, i, acc) ==
  IF i > Len(regions_sorted) THEN acc
  ELSE LET region == regions_sorted[i].region
           demanda == regions_sorted[i].demanda
           assigned_energy == min2(demanda, acc.remaining_energy)
       IN IF acc.remaining_energy <= 0
          THEN distribute(regions_sorted, i + 1,
                 [acc EXCEPT !.distribution = put(@, region, 0)])
          ELSE distribute(regions_sorted, i + 1,
                 [distribution |-> put(acc.distribution, region,
                                       assigned_energy),
                  remaining_energy |-> acc.remaining_energy - assigned_energy,
                  total_satisfied_demand |->
                    acc.total_satisfied_demand + assigned_energy])

optimize_energy_distribution(regions_demand, available_energy) ==
  LET populated == SelectSeq(regions_demand, LAMBDA r : r[3] > 0)
      regions_with_efficiency ==
        [i \in 1 .. Len(populated) |-> region_with_efficiency(populated[i])]
      regions_sorted == sorted(regions_with_efficiency,
          {ij \in positions(regions_with_efficiency) :
             region_before(regions_with_efficiency[ij[1]],
               regions_with_efficiency[ij[2]])})
      done == distribute(regions_sorted, 1,
                         [distribution |-> << >>,
                          remaining_energy |-> available_energy,
                          total_satisfied_demand |-> 0])
      total_demand == sum_demanda(regions_with_efficiency, 1)
  IN [outcome |-> "result",
      distribution |-> done.distribution,
      total_assigned |-> done.total_satisfied_demand,
      total_demand |-> total_demand,
      satisfaction_rate |->
        IF total_demand > 0
        THEN quotient(done.total_satisfied_demand * 100, total_demand)
        ELSE quotient(0, 1),
      remaining_energy |-> done.remaining_energy,
      algorithm |-> "greedy_priority_efficiency"]

\* a call that returns its result without recording it
record_nothing(recorded, result) == recorded

\* self.solutions.append(result)
record_solution(solutions, result) == Append(solutions, result)

\* the record kept for an outage (sector, duracion, usuarios, criticidad)
outage_with_efficiency(o) ==
  LET impacto_total == o[3] * o[4] * o[2]
  IN [sector |-> o[1], duracion |-> o[2], usuarios |-> o[3],
      criticidad |-> o[4], impacto_total |-> impacto_total,
      eficiencia_hora |-> IF o[2] > 0 THEN impacto_total \div o[2] ELSE inf]

outage_before(a, b) == a.eficiencia_hora < b.eficiencia_hora

\* an outage that would use up the capacity is not accepted
fits_strictly(remaining_capacity, duracion) == remaining_capacity > duracion

\* the test that accepts an outage
fits(remaining_capacity, duracion) == remaining_capacity >= duracion

\* the loop over outages_sorted from its i-th element
RECURSIVE select_outages(_, _, _)
select_outages(outages_sorted, i, acc) ==
  IF i > Len(outages_sorted) THEN acc
  ELSE LET outage == outages_sorted[i]
       IN IF fits(acc.remaining_capacity, outage.duracion)
          THEN select_outages(outages_sorted, i + 1,
                 [selected_outages |-> Append(acc.selected_outages, outage),
                  remaining_capacity |->
                    acc.remaining_capacity - outage.duracion,
                  total_users_affected |->
                    acc.total_users_affected + outage.usuarios,
                  total_impact |-> acc.total_impact + outage.impacto_total])
          ELSE select_outages(outages_sorted, i + 1, acc)

minimize_outage_impact(outages_data, maintenance_capacity) ==
  LET outages_with_efficiency ==
        [i \in 1 .. Len(outages_data) |->
           outage_with_efficiency(outages_data[i])]
      outages_sorted == sorted(outages_with_efficiency,
          {ij \in positions(outages_with_efficiency) :
             outage_before(outages_with_efficiency[ij[1]],
               outages_with_efficiency[ij[2]])})
      done == select_outages(outages_sorted, 1,
                [selected_outages |-> << >>,
                 remaining_capacity |-> maintenance_capacity,
                 total_users_affected |-> 0, total_impact |-> 0])
  IN [outcome |-> "result",
      selected_outages |-> done.selected_outages,
      total_duration |-> maintenance_capacity - done.remaining_capacity,
      total_users_affected |-> done.total_users_affected,
      total_impact |-> done.total_impact,
      remaining_capacity |-> done.remaining_capacity,
      algorithm |-> "greedy_minimal_impact"]

\* sorted by x[1], the capacity, instead of the cost
generator_before_by_capacity(a, b) == a[2] < b[2]

\* generators are (planta, capacidad_mwh, costo_mwh, tipo), sorted by x[2]
generator_before(a, b) == a[3] < b[3]

\* the loop over generators_sorted from its i-th element, with its break
RECURSIVE dispatch(_, _, _)
dispatch(generators_sorted, i, acc) ==
  IF i > Len(generators_sorted) \/ acc.remaining_demand <= 0 THEN acc
  ELSE LET g == generators_sorted[i]
           generation == min2(g[2], acc.remaining_demand)
           generator_cost == generation * g[3]
       IN dispatch(generators_sorted, i + 1,
            [selected_generators |->
               Append(acc.selected_generators,
                      [planta |-> g[1], tipo |-> g[4],
                       capacidad_total |-> g[2],
                       generation_assigned |-> generation,
                       costo_mwh |-> g[3], costo_total |-> generator_cost]),
             remaining_demand |-> acc.remaining_demand - generation,
             total_capacity |-> acc.total_capacity + generation,
             total_cost |-> acc.total_cost + generator_cost])

optimize_load_balancing(generators_data, total_demand) ==
  LET generators_sorted == sorted(generators_data,
          {ij \in positions(generators_data) :
             generator_before(generators_data[ij[1]],
               generators_data[ij[2]])})
      done == dispatch(generators_sorted, 1,
                [selected_generators |-> << >>,
                 remaining_demand |-> total_demand,
                 total_capacity |-> 0, total_cost |-> 0])
  IN [outcome |-> "result",
      selected_generators |-> done.selected_generators,
      total_generation |-> done.total_capacity,
      total_demand |-> total_demand,
      demand_satisfaction |->
        IF total_demand > 0
        THEN quotient(done.total_capacity * 100, total_demand)
        ELSE quotient(0, 1),
      total_cost |-> done.total_cost,
      avg_cost_mwh |-> IF done.total_capacity > 0
                       THEN quotient(done.total_cost, done.total_capacity)
                       ELSE quotient(0, 1),
      remaining_demand |-> done.remaining_demand,
      algorithm |-> "greedy_cost_optimization"]

(***************************************************************************)
(* Inputs                                                                  *)
(***************************************************************************)
SeqsUpTo(S, n) == UNION {[1 .. k -> S] : k \in 0 .. n}

\* a flat demand of demo_max_capacity after LeadIn periods without demand
long_demand ==
  [i \in 1 .. (LeadIn + LongHorizon) |->
     IF i <= LeadIn THEN 0 ELSE demo_max_capacity]

\* a flat demand of demo_max_capacity from period 0 on
flat_demand == [i \in 1 .. LongHorizon |-> demo_max_capacity]

\* a flat demand of 4 over TieHorizon periods: building 4 units in period 0
\* (1,208,000 and 400 per period) costs what never building does (2,000 per
\* period)
tie_demand == [i \in 1 .. TieHorizon |-> 4]

CapacityInputs ==
  {[time_periods |-> t, max_capacity |-> m, demand_forecast |-> d] :
     t \in -1 .. MaxPeriods, m \in -1 .. MaxCapacity,
     d \in SeqsUpTo(0 .. MaxDemand, MaxPeriods)}
  \cup {[time_periods |-> demo_time_periods, max_capacity |-> demo_max_capacity,
         demand_forecast |-> demo_demand_forecast],
        [time_periods |-> LeadIn + LongHorizon,
         max_capacity |-> demo_max_capacity, demand_forecast |-> long_demand],
        [time_periods |-> LongHorizon, max_capacity |-> demo_max_capacity,
         demand_forecast |-> flat_demand],
        [time_periods |-> TieHorizon, max_capacity |-> 4,
         demand_forecast |-> tie_demand]}

Names == {"A", "B"}

Projects ==
  {<<costo, beneficio, nombre, "Renovable">> :
     costo \in 0 .. MaxCost, beneficio \in 1 .. MaxBenefit, nombre \in Names}

EnergyInputs ==
  {[projects |-> p, total_budget |-> b] :
     p \in SeqsUpTo(Projects, MaxProjects), b \in -1 .. MaxBudget}
  \cup {[projects |-> demo_projects, total_budget |-> demo_budget]}

\* a rate of 0: maintaining costs nothing
free_maintenance_costs == ("Hidraulica" :> 0)

\* rates under which maintaining pays off, and the demo's
low_maintenance_costs == ("Hidraulica" :> 100) @@ ("Termico" :> 300)

\* units in every health state, and in the two states next to the range
Equipment ==
  {<<"Turbina A", eq_type, initial_state>> :
     eq_type \in {"Hidraulica", "Termico"}, initial_state \in -1 .. states}

MaintenanceInputs ==
  {[equipment_list |-> e, time_horizon |-> h, maintenance_costs |-> m] :
     e \in SeqsUpTo(Equipment, MaxEquipment), h \in 0 .. MaxHorizon,
     m \in {low_maintenance_costs, free_maintenance_costs,
            demo_maintenance_costs}}
  \cup {[equipment_list |-> demo_equipment_list,
         time_horizon |-> demo_time_horizon,
         maintenance_costs |-> demo_maintenance_costs]}

(***************************************************************************)
(* State: one DynamicProgrammingOptimizer, the last solver call made on it *)
(* and the optimize_energy_projects calls that run on it step by step      *)
(***************************************************************************)
VARIABLES
  memo_tables,      \* self.memo_tables
  solutions_cache,  \* self.solutions_cache
  debug_mode,       \* self.debug_mode
  cache,            \* the lru_cache of knapsack_energy_projects
  op,               \* the solver called last ("none" before the first call)
  args,             \* its arguments
  result,           \* what it returned, or the exception it raised
  calls,            \* number of solver calls made
  before,           \* history: the cache as the last solver call found it
  request,          \* per thread: the arguments of its optimize_energy_projects
  stack,            \* per thread: the frames of knapsack_energy_projects
  returned,         \* per thread: what its call returned
  origin,           \* history: for each cache entry, the call that stored it
  reads,            \* history: the cache hits, reader and origin of the entry
  solutions,        \* GreedyEnergyOptimizer: self.solutions
  greedy_debug_mode, \* GreedyEnergyOptimizer: self.debug_mode
  max_size,         \* MemoizationDecorator: self.max_size
  ttl,              \* MemoizationDecorator: self.ttl, << >> for None
  memo_cache,       \* MemoizationDecorator: self.cache, key -> (time, result)
  access_times,     \* MemoizationDecorator: self.access_times, in dict order
  hit_count,        \* MemoizationDecorator: self.hit_count
  miss_count,       \* MemoizationDecorator: self.miss_count
  now,              \* the last value time.time() returned
  invocations,      \* history: how often the wrapped function ran
  completed,        \* history: wrapper calls returned since the last clear
  recency           \* history: the cached keys, least recently used first

call_vars == <<op, args, result, calls, before>>
thread_vars == <<request, stack, returned, origin, reads>>
greedy_vars == <<solutions, greedy_debug_mode>>
memo_vars == <<max_size, ttl, memo_cache, access_times, hit_count, miss_count,
               now, invocations, completed, recency>>
vars == <<memo_tables, solutions_cache, debug_mode, cache, call_vars,
          thread_vars, greedy_vars, memo_vars>>

EmptyDict == << >>

\* the threads that may call optimize_energy_projects on the one optimizer
Threads == {1, 2}

NoCall == [outcome |-> "none"]

\* the two __init__, with an empty lru_cache and no call under way
Init ==
  /\ memo_tables = EmptyDict
  /\ solutions_cache = EmptyDict
  /\ debug_mode = FALSE
  /\ cache = EmptyDict
  /\ op = "none"
  /\ args = << >>
  /\ result = NoCall
  /\ calls = 0
  /\ before = EmptyDict
  /\ request = [t \in Threads |-> << >>]
  /\ stack = [t \in Threads |-> << >>]
  /\ returned = [t \in Threads |-> NoCall]
  /\ origin = EmptyDict
  /\ reads = {}
  /\ solutions = << >>
  /\ greedy_debug_mode = FALSE
  /\ max_size = 128
  /\ ttl = << >>
  /\ memo_cache = EmptyDict
  /\ access_times = << >>
  /\ hit_count = 0
  /\ miss_count = 0
  /\ now = 0
  /\ invocations = 0
  /\ completed = 0
  /\ recency = << >>

Call_optimize_capacity_planning(a) ==
  /\ op' = "optimize_capacity_planning"
  /\ args' = a
  /\ result' = optimize_capacity_planning(a.time_periods, a.max_capacity,
                                          a.demand_forecast)
  /\ calls' = calls + 1
  /\ before' = cache
  /\ UNCHANGED greedy_vars
  /\ UNCHANGED memo_vars
  /\ UNCHANGED <<memo_tables, solutions_cache, debug_mode, cache, thread_vars>>

Call_optimize_energy_projects(a) ==
  LET r == optimize_energy_projects(cache, a.projects, a.total_budget)
  IN /\ op' = "optimize_energy_projects"
     /\ args' = a
     /\ result' = r.result
     /\ cache' = r.cache
     /\ calls' = calls + 1
     /\ before' = cache
     /\ UNCHANGED greedy_vars
     /\ UNCHANGED memo_vars
     /\ UNCHANGED <<memo_tables, solutions_cache, debug_mode, thread_vars>>

Call_optimize_maintenance_schedule(a) ==
  /\ op' = "optimize_maintenance_schedule"
  /\ args' = a
  /\ result' = optimize_maintenance_schedule(a.equipment_list, a.time_horizon,
                                             a.maintenance_costs)
  /\ calls' = calls + 1
  /\ before' = cache
  /\ UNCHANGED greedy_vars
  /\ UNCHANGED memo_vars
  /\ UNCHANGED <<memo_tables, solutions_cache, debug_mode, cache, thread_vars>>

\* the first call on a fresh optimizer, with any of the inputs
First_optimize_capacity_planning ==
  /\ calls = 0
  /\ \E a \in CapacityInputs : Call_optimize_capacity_planning(a)

First_optimize_energy_projects ==
  /\ calls = 0
  /\ \E a \in EnergyInputs : Call_optimize_energy_projects(a)

First_optimize_maintenance_schedule ==
  /\ calls = 0
  /\ \E a \in MaintenanceInputs : Call_optimize_maintenance_schedule(a)

Next ==
  \/ First_optimize_capacity_planning
  \/ First_optimize_energy_projects
  \/ First_optimize_maintenance_schedule

Spec == Init /\ [][Next]_vars

(***************************************************************************)
(* Sequences of calls on the one optimizer                                 *)
(***************************************************************************)
SeqProjects == {<<1, 1, "A", "Renovable">>, <<2, 3, "B", "Termico">>}

\* lists of up to SeqLen different projects, budgets from 0 to SeqBudget
SeqEnergyInputs ==
  {[projects |-> p, total_budget |-> b] :
     p \in {q \in SeqsUpTo(SeqProjects, SeqLen) :
              \A i, j \in 1 .. Len(q) : q[i] = q[j] => i = j},
     b \in 0 .. SeqBudget}

SeqCapacityInputs ==
  {[time_periods |-> demo_time_periods, max_capacity |-> demo_max_capacity,
    demand_forecast |-> demo_demand_forecast]}

SeqMaintenanceInputs ==
  {[equipment_list |-> demo_equipment_list, time_horizon |-> demo_time_horizon,
    maintenance_costs |-> demo_maintenance_costs]}

Seq_optimize_capacity_planning ==
  /\ calls < MaxCalls
  /\ \E a \in SeqCapacityInputs : Call_optimize_capacity_planning(a)

Seq_optimize_energy_projects ==
  /\ calls < MaxCalls
  /\ \E a \in SeqEnergyInputs : Call_optimize_energy_projects(a)

Seq_optimize_maintenance_schedule ==
  /\ calls < MaxCalls
  /\ \E a \in SeqMaintenanceInputs : Call_optimize_maintenance_schedule(a)

set_debug_mode ==
  \E debug \in BOOLEAN :
    /\ debug_mode' = debug
    /\ UNCHANGED greedy_vars
    /\ UNCHANGED memo_vars
    /\ UNCHANGED <<memo_tables, solutions_cache, cache, call_vars, thread_vars>>

\* cache_clear() empties the lru_cache; the two dictionaries are replaced
clear_cache ==
  /\ cache' = EmptyDict
  /\ memo_tables' = EmptyDict
  /\ solutions_cache' = EmptyDict
  /\ UNCHANGED greedy_vars
  /\ UNCHANGED memo_vars
  /\ UNCHANGED <<debug_mode, call_vars, thread_vars>>

NextSeq ==
  \/ Seq_optimize_capacity_planning
  \/ Seq_optimize_energy_projects
  \/ Seq_optimize_maintenance_schedule
  \/ set_debug_mode
  \/ clear_cache

SpecSeq == Init /\ [][NextSeq]_vars

(***************************************************************************)
(* optimize_energy_projects calls that run step by step on the one         *)
(* optimizer and share its lru_cache. A step of a thread is one access to  *)
(* the cache (the lookup when knapsack_energy_projects is entered, the     *)
(* store when its body has returned) and the code that follows it up to    *)
(* the next access.                                                        *)
(***************************************************************************)
\* projects that differ in cost, benefit and name, or in category only
SharedProjects ==
  {<<1, 1, "A", "Renovable">>, <<1, 1, "A", "Distribuida">>,
   <<1, 2, "B", "Renovable">>}

SharedEnergyInputs ==
  {[projects |-> p, total_budget |-> b] :
     p \in {q \in SeqsUpTo(SharedProjects, SharedLen) :
              \A i, j \in 1 .. Len(q) : q[i] = q[j] => i = j},
     b \in 1 .. SharedBudget}

\* a call of knapsack_energy_projects(budget, project_index, projects_tuple)
\* that has reached the cache lookup
frame(budget, project_index) ==
  [budget |-> budget, project_index |-> project_index, phase |-> "lookup",
   without |-> <<0, << >> >>, value |-> <<0, << >> >>]

top(frames) == frames[Len(frames)]
pop(frames) == SubSeq(frames, 1, Len(frames) - 1)
retop(frames, f) == [frames EXCEPT ![Len(frames)] = f]

\* a miss: the body runs up to its first recursive call, or to its return
enter_body(frames, projects_tuple) ==
  LET f == top(frames)
  IN IF base_case(f.budget, f.project_index)
     THEN retop(frames, [f EXCEPT !.phase = "store", !.value = <<0, << >> >>])
     ELSE IF projects_tuple[f.project_index][1] > f.budget
          THEN Append(retop(frames, [f EXCEPT !.phase = "tail"]),
                      frame(f.budget, f.project_index - 1))
          ELSE Append(retop(frames, [f EXCEPT !.phase = "without"]),
                      frame(f.budget, f.project_index - 1))

\* a recursive call has returned value to the frame on top: the body goes on
\* to its next recursive call, or to its return
resume(frames, value, projects_tuple) ==
  LET f == top(frames)
      costo == projects_tuple[f.project_index][1]
      beneficio == projects_tuple[f.project_index][2]
      nombre == projects_tuple[f.project_index][3]
      benefit_with_current == value[1] + beneficio
  IN CASE f.phase = "tail" ->
            retop(frames, [f EXCEPT !.phase = "store", !.value = value])
       [] f.phase = "without" ->
            Append(retop(frames, [f EXCEPT !.phase = "with", !.without = value]),
                   frame(f.budget - costo, f.project_index - 1))
       [] f.phase = "with" ->
            retop(frames,
                  [f EXCEPT !.phase = "store",
                            !.value =
                              IF include_wins(benefit_with_current, f.without[1])
                              THEN <<benefit_with_current,
                                     Append(value[2], nombre)>>
                              ELSE f.without])

\* optimize_energy_projects is entered: the tuple is built and the recursion
\* is called with the whole budget and all the projects
Start(t) ==
  /\ request[t] = << >>
  /\ \E a \in SharedEnergyInputs :
       /\ request' = [request EXCEPT ![t] = a]
       /\ stack' = [stack EXCEPT
                      ![t] = <<frame(a.total_budget, Len(a.projects))>>]
  /\ UNCHANGED greedy_vars
  /\ UNCHANGED memo_vars
  /\ UNCHANGED <<memo_tables, solutions_cache, debug_mode, cache, call_vars,
                 returned, origin, reads>>

\* the call on top of thread t's stack returns value: to the frame below, or
\* to optimize_energy_projects, which builds the result
Return(t, value) ==
  LET frames == pop(stack[t])
  IN IF frames = << >>
     THEN /\ stack' = [stack EXCEPT ![t] = << >>]
          /\ returned' = [returned EXCEPT
                            ![t] = energy_result(request[t].projects,
                                                 request[t].total_budget,
                                                 value[1], value[2])]
     ELSE /\ stack' = [stack EXCEPT
                         ![t] = resume(frames, value,
                                       to_projects_tuple(request[t].projects))]
          /\ UNCHANGED returned

Hit(t) ==
  /\ stack[t] # << >>
  /\ top(stack[t]).phase = "lookup"
  /\ LET key == cache_key(top(stack[t]).budget, top(stack[t]).project_index,
                          to_projects_tuple(request[t].projects))
     IN /\ key \in DOMAIN cache
        /\ reads' = reads \cup {[projects |-> request[t].projects,
                                 origin |-> origin[key]]}
        /\ Return(t, cache[key])
  /\ UNCHANGED greedy_vars
  /\ UNCHANGED memo_vars
  /\ UNCHANGED <<memo_tables, solutions_cache, debug_mode, cache, call_vars,
                 request, origin>>

Miss(t) ==
  /\ stack[t] # << >>
  /\ top(stack[t]).phase = "lookup"
  /\ cache_key(top(stack[t]).budget, top(stack[t]).project_index,
               to_projects_tuple(request[t].projects)) \notin DOMAIN cache
  /\ stack' = [stack EXCEPT
                 ![t] = enter_body(stack[t],
                                   to_projects_tuple(request[t].projects))]
  /\ UNCHANGED greedy_vars
  /\ UNCHANGED memo_vars
  /\ UNCHANGED <<memo_tables, solutions_cache, debug_mode, cache, call_vars,
                 request, returned, origin, reads>>

\* the body has returned: lru_cache stores the value, unless the key was
\* stored while the body ran, and returns it
Store(t) ==
  /\ stack[t] # << >>
  /\ top(stack[t]).phase = "store"
  /\ LET key == cache_key(top(stack[t]).budget, top(stack[t]).project_index,
                          to_projects_tuple(request[t].projects))
         value == top(stack[t]).value
     IN /\ IF key \in DOMAIN cache
           THEN UNCHANGED <<cache, origin>>
           ELSE /\ cache' = (key :> value) @@ cache
                /\ origin' = (key :> [thread |-> t,
                                      projects |-> request[t].projects])
                             @@ origin
        /\ Return(t, value)
  /\ UNCHANGED greedy_vars
  /\ UNCHANGED memo_vars
  /\ UNCHANGED <<memo_tables, solutions_cache, debug_mode, call_vars, request,
                 reads>>

Thread_Start == \E t \in Threads : Start(t)
Thread_Hit == \E t \in Threads : Hit(t)
Thread_Miss == \E t \in Threads : Miss(t)
Thread_Store == \E t \in Threads : Store(t)

NextShared ==
  \/ Thread_Start
  \/ Thread_Hit
  \/ Thread_Miss
  \/ Thread_Store

SpecShared == Init /\ [][NextShared]_vars

(***************************************************************************)
(* Sequences of calls on one GreedyEnergyOptimizer                         *)
(***************************************************************************)
\* lists of up to n different elements of S
DistinctSeqsUpTo(S, n) ==
  {q \in SeqsUpTo(S, n) : \A i, j \in 1 .. Len(q) : q[i] = q[j] => i = j}

\* (region, demanda_mwh, poblacion, prioridad)
GreedyRegions == {<<"Quito", 2, 4, 2>>, <<"Cuenca", 1, 1, 1>>}

\* (sector, duracion_horas, usuarios_afectados, criticidad)
GreedyOutages == {<<"Industrial Norte", 2, 3, 2>>, <<"Universidad", 1, 2, 1>>}

\* (planta, capacidad_mwh, costo_mwh, tipo)
GreedyGenerators ==
  {<<"Solar Salinas", 1, 35, "Renovable">>,
   <<"Termica Trinitaria", 2, 120, "Termica">>}

Greedy_optimize_energy_distribution ==
  /\ calls < MaxGreedyCalls
  /\ \E regions_demand \in DistinctSeqsUpTo(GreedyRegions, GreedyLen),
        available_energy \in 0 .. GreedySupply :
       LET r == optimize_energy_distribution(regions_demand, available_energy)
       IN /\ op' = "optimize_energy_distribution"
          /\ args' = [regions_demand |-> regions_demand,
                      available_energy |-> available_energy]
          /\ result' = r
          /\ solutions' = record_solution(solutions, r)
  /\ calls' = calls + 1
  /\ UNCHANGED memo_vars
  /\ UNCHANGED <<memo_tables, solutions_cache, debug_mode, cache, before,
                 thread_vars, greedy_debug_mode>>

Greedy_minimize_outage_impact ==
  /\ calls < MaxGreedyCalls
  /\ \E outages_data \in DistinctSeqsUpTo(GreedyOutages, GreedyLen),
        maintenance_capacity \in 0 .. GreedySupply :
       /\ op' = "minimize_outage_impact"
       /\ args' = [outages_data |-> outages_data,
                   maintenance_capacity |-> maintenance_capacity]
       /\ result' = minimize_outage_impact(outages_data, maintenance_capacity)
  /\ calls' = calls + 1
  /\ UNCHANGED memo_vars
  /\ UNCHANGED <<memo_tables, solutions_cache, debug_mode, cache, before,
                 thread_vars, greedy_vars>>

Greedy_optimize_load_balancing ==
  /\ calls < MaxGreedyCalls
  /\ \E generators_data \in DistinctSeqsUpTo(GreedyGenerators, GreedyLen),
        total_demand \in 0 .. GreedySupply :
       /\ op' = "optimize_load_balancing"
       /\ args' = [generators_data |-> generators_data,
                   total_demand |-> total_demand]
       /\ result' = optimize_load_balancing(generators_data, total_demand)
  /\ calls' = calls + 1
  /\ UNCHANGED memo_vars
  /\ UNCHANGED <<memo_tables, solutions_cache, debug_mode, cache, before,
                 thread_vars, greedy_vars>>

Greedy_set_debug_mode ==
  \E debug \in BOOLEAN :
    /\ greedy_debug_mode' = debug
    /\ UNCHANGED memo_vars
    /\ UNCHANGED <<memo_tables, solutions_cache, debug_mode, cache, call_vars,
                   thread_vars, solutions>>

\* returns self.solutions
get_all_solutions ==
  /\ op' = "get_all_solutions"
  /\ args' = << >>
  /\ result' = solutions
  /\ UNCHANGED memo_vars
  /\ UNCHANGED <<memo_tables, solutions_cache, debug_mode, cache, calls,
                 before, thread_vars, greedy_vars>>

clear_solutions ==
  /\ solutions' = << >>
  /\ UNCHANGED memo_vars
  /\ UNCHANGED <<memo_tables, solutions_cache, debug_mode, cache, call_vars,
                 thread_vars, greedy_debug_mode>>

NextGreedy ==
  \/ Greedy_optimize_energy_distribution
  \/ Greedy_minimize_outage_impact
  \/ Greedy_optimize_load_balancing
  \/ Greedy_set_debug_mode
  \/ get_all_solutions
  \/ clear_solutions

SpecGreedy == Init /\ [][NextGreedy]_vars

(***************************************************************************)
(* One call of an allocator on a fresh GreedyEnergyOptimizer               *)
(***************************************************************************)
AllocNames == {"Quito", "Cuenca", "Loja"}

\* lists of up to n tuples with different names in the first field
NamedLists(S, n) ==
  {q \in SeqsUpTo(S, n) : \A i, j \in 1 .. Len(q) : q[i][1] = q[j][1] => i = j}

\* (region, demanda_mwh, poblacion, prioridad); poblacion 0 is filtered out
AllocRegions ==
  {<<region, demanda, poblacion, prioridad>> :
     region \in AllocNames, demanda \in 0 .. AllocAmount,
     poblacion \in 0 .. 2, prioridad \in 1 .. 2}

\* (sector, duracion_horas, usuarios_afectados, criticidad)
AllocOutages ==
  {<<sector, duracion, usuarios, criticidad>> :
     sector \in AllocNames, duracion \in 0 .. AllocAmount,
     usuarios \in 0 .. 2, criticidad \in 1 .. 2}

\* (planta, capacidad_mwh, costo_mwh, tipo)
AllocGenerators ==
  {<<planta, capacidad, costo_mwh, "Termica">> :
     planta \in AllocNames, capacidad \in 0 .. AllocAmount,
     costo_mwh \in 1 .. 3}

Alloc_optimize_energy_distribution ==
  /\ calls = 0
  /\ \E regions_demand \in NamedLists(AllocRegions, AllocLen),
        available_energy \in -1 .. AllocSupply :
       LET r == optimize_energy_distribution(regions_demand, available_energy)
       IN /\ op' = "optimize_energy_distribution"
          /\ args' = [regions_demand |-> regions_demand,
                      available_energy |-> available_energy]
          /\ result' = r
          /\ solutions' = record_solution(solutions, r)
  /\ calls' = calls + 1
  /\ UNCHANGED memo_vars
  /\ UNCHANGED <<memo_tables, solutions_cache, debug_mode, cache, before,
                 thread_vars, greedy_debug_mode>>

Alloc_minimize_outage_impact ==
  /\ calls = 0
  /\ \E outages_data \in NamedLists(AllocOutages, AllocLen),
        maintenance_capacity \in -1 .. AllocSupply :
       /\ op' = "minimize_outage_impact"
       /\ args' = [outages_data |-> outages_data,
                   maintenance_capacity |-> maintenance_capacity]
       /\ result' = minimize_outage_impact(outages_data, maintenance_capacity)
  /\ calls' = calls + 1
  /\ UNCHANGED memo_vars
  /\ UNCHANGED <<memo_tables, solutions_cache, debug_mode, cache, before,
                 thread_vars, greedy_vars>>

Alloc_optimize_load_balancing ==
  /\ calls = 0
  /\ \E generators_data \in NamedLists(AllocGenerators, AllocLen),
        total_demand \in -1 .. AllocSupply :
       /\ op' = "optimize_load_balancing"
       /\ args' = [generators_data |-> generators_data,
                   total_demand |-> total_demand]
       /\ result' = optimize_load_balancing(generators_data, total_demand)
  /\ calls' = calls + 1
  /\ UNCHANGED memo_vars
  /\ UNCHANGED <<memo_tables, solutions_cache, debug_mode, cache, before,
                 thread_vars, greedy_vars>>

NextAlloc ==
  \/ Alloc_optimize_energy_distribution
  \/ Alloc_minimize_outage_impact
  \/ Alloc_optimize_load_balancing

SpecAlloc == Init /\ [][NextAlloc]_vars

(***************************************************************************)
(* Properties                                                              *)
(***************************************************************************)
IsCapacityCall == op = "optimize_capacity_planning"
IsEnergyCall == op = "optimize_energy_projects"
IsMaintenanceCall == op = "optimize_maintenance_schedule"

\* the input constraints of the capacity planner
ValidCapacityArgs ==
  /\ args.time_periods >= 1
  /\ Len(args.demand_forecast) = args.time_periods
  /\ args.max_capacity >= 0

NonDecreasing(plan) ==
  \A p \in 2 .. Len(plan) : plan[p].total_capacity >= plan[p - 1].total_capacity

RECURSIVE SumOver(_, _, _)
SumOver(projects, S, k) ==
  IF S = {} THEN 0
  ELSE LET i == CHOOSE x \in S : TRUE
       IN projects[i][k] + SumOver(projects, S \ {i}, k)

\* the best total benefit of a subset of the projects that fits the budget
BruteForceMax(projects, budget) ==
  LET feasible == {S \in SUBSET (1 .. Len(projects)) :
                     SumOver(projects, S, 1) <= budget}
      benefits == {SumOver(projects, S, 2) : S \in feasible}
  IN CHOOSE m \in benefits : \A n \in benefits : n <= m

RECURSIVE SumSeq(_, _)
SumSeq(seq, i) == IF i > Len(seq) THEN 0 ELSE seq[i] + SumSeq(seq, i + 1)

\* C1: for at most 15 projects with costs >= 0 and a budget >= 0, the
\* total_benefit returned by optimize_energy_projects is the maximum total
\* benefit over all subsets of the projects whose summed cost is <= budget,
\* zero-cost projects included.
C1_KnapsackOptimal ==
  (/\ IsEnergyCall
   /\ Len(args.projects) <= 15
   /\ args.total_budget >= 0
   /\ result.outcome = "result")
  => result.total_benefit = BruteForceMax(args.projects, args.total_budget)

\* C2: for every project list and budget (within the input constraint
\* budget >= 0), the result of optimize_energy_projects has total_cost <=
\* budget, total_cost being the sum of the costs of the entries of
\* selected_projects (remaining_budget >= 0).
C2_KnapsackFeasible ==
  (IsEnergyCall /\ args.total_budget >= 0 /\ result.outcome = "result")
  => /\ result.total_cost
          = SumSeq([i \in 1 .. Len(result.selected_projects) |->
                      result.selected_projects[i].costo], 1)
     /\ result.total_cost <= args.total_budget
     /\ result.remaining_budget >= 0

\* C3: optimize_energy_projects with budget = 0 has no error path: it
\* returns a result with no selected project, total_cost 0 and
\* total_benefit 0.
C3_ZeroBudgetEmptySelection ==
  (IsEnergyCall /\ args.total_budget = 0)
  => /\ result.outcome = "result"
     /\ result.selected_projects = << >>
     /\ result.total_cost = 0
     /\ result.total_benefit = 0

\* C4: in every plan returned by optimize_capacity_planning, total_capacity
\* never decreases from one period to the next and every expansion is >= 0.
C4_CapacityMonotone ==
  (IsCapacityCall /\ result.outcome = "plan")
  => /\ NonDecreasing(result.optimal_plan)
     /\ \A p \in 1 .. Len(result.optimal_plan) :
          result.optimal_plan[p].expansion >= 0

\* a plan that expands after period 0 and goes on for periods after that
C4_Witness ==
  /\ IsCapacityCall
  /\ result.outcome = "plan"
  /\ \E p \in 2 .. (Len(result.optimal_plan) - 1) :
       /\ result.optimal_plan[p].expansion > 0
       /\ result.optimal_plan[p].total_capacity
            > result.optimal_plan[p - 1].total_capacity
       /\ result.optimal_plan[p + 1].expansion = 0

IsScenario1 ==
  /\ IsCapacityCall
  /\ args.time_periods = demo_time_periods
  /\ args.max_capacity = demo_max_capacity
  /\ args.demand_forecast = demo_demand_forecast

\* C5 as stated: for periods=5, maxCapacity=20, demand=[8,12,15,18,16] the
\* plan ends with a total capacity >= 16 and its total_capacity never
\* decreases over the 5 periods.
C5_Scenario1_AsStated ==
  IsScenario1
  => /\ result.outcome = "plan"
     /\ Len(result.optimal_plan) = 5
     /\ result.optimal_plan[5].total_capacity >= 16
     /\ NonDecreasing(result.optimal_plan)

\* C5 as amended: for periods=5, maxCapacity=20, demand=[8,12,15,18,16] the
\* plan ends with a total capacity of 0 (no expansion pays off within 5
\* periods) and its total_capacity never decreases over the 5 periods.
C5_Scenario1 ==
  IsScenario1
  => /\ result.outcome = "plan"
     /\ Len(result.optimal_plan) = 5
     /\ result.optimal_plan[5].total_capacity = 0
     /\ result.final_capacity = 0
     /\ NonDecreasing(result.optimal_plan)

C5_Witness ==
  /\ IsScenario1
  /\ result.outcome = "plan"
  /\ Len(result.optimal_plan) = 5
  /\ result.optimal_plan[5].demand = 16

\* C6: optimize_capacity_planning with periods < 1, a demand sequence whose
\* length differs from periods, or maxCapacity < 0 fails with InvalidInput
\* before any entry of the DP table is built: no plan, no other error.
C6_InvalidInputRejected ==
  (IsCapacityCall /\ ~ValidCapacityArgs)
  => /\ result.outcome = "InvalidInput"
     /\ result.dp_table_size = 0

\* C7: optimize_energy_projects with a negative budget is rejected with
\* InvalidInput before the knapsack recursion runs or any memoization entry
\* is created: no result record.
C7_NegativeBudgetRejected ==
  (IsEnergyCall /\ args.total_budget < 0)
  => /\ result.outcome = "InvalidInput"
     /\ cache = EmptyDict

\* C8: for periods >= 1, a demand sequence of that length and maxCapacity
\* >= 0, optimize_capacity_planning returns a plan and never an error, also
\* when demand exceeds maxCapacity; with maxCapacity = 0 every period has
\* expansion 0 and total_capacity 0 and the total cost is the deficit charge
\* of 500 per unit of demand, nothing else.
C8_AlwaysPlans ==
  (IsCapacityCall /\ ValidCapacityArgs)
  => /\ result.outcome = "plan"
     /\ Len(result.optimal_plan) = args.time_periods
     /\ args.max_capacity = 0
          => /\ \A p \in 1 .. Len(result.optimal_plan) :
                  /\ result.optimal_plan[p].expansion = 0
                  /\ result.optimal_plan[p].total_capacity = 0
                  /\ result.optimal_plan[p].construction_cost = 0
             /\ result.total_cost
                  = SumSeq([p \in 1 .. args.time_periods |->
                              500 * args.demand_forecast[p]], 1)

\* a plan under maxCapacity = 0 with demand in every one of several periods
C8_Witness ==
  /\ IsCapacityCall
  /\ ValidCapacityArgs
  /\ args.max_capacity = 0
  /\ args.time_periods >= 2
  /\ \A p \in 1 .. args.time_periods : args.demand_forecast[p] > 0
  /\ result.outcome = "plan"
  /\ result.total_cost > 0

\* what the last solver call returns on a fresh optimizer (empty lru_cache)
OnFreshOptimizer ==
  CASE IsCapacityCall ->
         optimize_capacity_planning(args.time_periods, args.max_capacity,
                                    args.demand_forecast)
    [] IsEnergyCall ->
         optimize_energy_projects(EmptyDict, args.projects,
                                  args.total_budget).result
    [] IsMaintenanceCall ->
         optimize_maintenance_schedule(args.equipment_list, args.time_horizon,
                                       args.maintenance_costs)
    [] OTHER -> NoCall

\* C9: on one optimizer, after any sequence of earlier calls to the three
\* solvers, with or without clear_cache (and set_debug_mode) in between, a
\* solver call returns exactly the result (or raises the exception) that the
\* same call returns on a fresh optimizer.
C9_DeterministicAcrossCalls == result = OnFreshOptimizer

\* a second optimize_energy_projects call that returns a non-empty selection
\* and found, in the cache left by the earlier call, entries it looks up
C9_Witness ==
  /\ IsEnergyCall
  /\ calls = MaxCalls
  /\ result.outcome = "result"
  /\ result.total_benefit > 0
  /\ LET alone == optimize_energy_projects(EmptyDict, args.projects,
                                           args.total_budget)
     IN /\ DOMAIN before \cap DOMAIN alone.cache # {}
        /\ DOMAIN before \ DOMAIN alone.cache # {}

\* every call that has returned, returned what it returns running alone with
\* an empty cache
ReturnsAsAlone ==
  \A t \in Threads :
    returned[t] # NoCall
      => returned[t] = optimize_energy_projects(EmptyDict, request[t].projects,
                                                request[t].total_budget).result

\* C10 as stated: when optimize_energy_projects calls share the uncleared
\* knapsack cache, one after the other or interleaved step by step, no call
\* reads a cache entry that was computed for a different project list, and
\* each call returns what it returns running alone with an empty cache.
C10_CacheIsolation_AsStated ==
  /\ \A r \in reads : r.projects = r.origin.projects
  /\ ReturnsAsAlone

\* C10: when optimize_energy_projects calls share the uncleared knapsack
\* cache, one after the other or interleaved step by step, no call reads a
\* cache entry that was computed for a list with a different sequence of
\* (cost, benefit, name), the category being no part of the key, and each
\* call returns what it returns running alone with an empty cache.
C10_CacheIsolation ==
  /\ \A r \in reads :
       to_projects_tuple(r.projects) = to_projects_tuple(r.origin.projects)
  /\ ReturnsAsAlone

\* two interleaved calls with different project lists have both returned a
\* non-empty selection, and each has read an entry the other one stored
C10_Witness ==
  /\ \A t \in Threads :
       /\ returned[t] # NoCall
       /\ returned[t].outcome = "result"
       /\ returned[t].selected_projects # << >>
       /\ \E k \in DOMAIN origin :
            /\ origin[k].thread # t
            /\ [projects |-> request[t].projects, origin |-> origin[k]]
                 \in reads
  /\ request[1].projects # request[2].projects

\* every unit of the call starts in a health state of the range
ValidHealthArgs ==
  \A e \in 1 .. Len(args.equipment_list) :
    args.equipment_list[e][3] \in 0 .. (states - 1)

C12_ScheduleShape ==
  IsMaintenanceCall
  => /\ Len(result.maintenance_schedule) = Len(args.equipment_list)
     /\ \A e \in 1 .. Len(args.equipment_list) :
          LET unit == result.maintenance_schedule[e]
          IN /\ unit.equipment = args.equipment_list[e][1]
             /\ unit.type = args.equipment_list[e][2]
             /\ unit.initial_state = args.equipment_list[e][3]
             /\ Len(unit.schedule) = args.time_horizon
             /\ \A t \in 1 .. Len(unit.schedule) :
                  unit.schedule[t].period = t - 1
     /\ (args.equipment_list = demo_equipment_list
         /\ args.time_horizon = demo_time_horizon)
          => \A e \in 1 .. 3 :
               Len(result.maintenance_schedule[e].schedule) = 4

\* the demonstration: three units in health 2, 1 and 3 over 4 periods
C12_Witness ==
  /\ IsMaintenanceCall
  /\ args.equipment_list = demo_equipment_list
  /\ args.time_horizon = demo_time_horizon
  /\ Len(result.maintenance_schedule) = 3
  /\ result.maintenance_schedule[3].schedule[4].period = 3

GreedySolvers ==
  {"optimize_energy_distribution", "minimize_outage_impact",
   "optimize_load_balancing"}

\* the step is a call of one of the named methods of GreedyEnergyOptimizer
GreedyCallStep(names) == calls' = calls + 1 /\ op' \in names

\* C13 as stated: a call of any of the three greedy allocators leaves every
\* field of the GreedyEnergyOptimizer (solutions, debug_mode) unchanged.
C13_Stateless_AsStated ==
  [][GreedyCallStep(GreedySolvers) => UNCHANGED greedy_vars]_vars

\* C13: minimize_outage_impact and optimize_load_balancing leave every field of
\* the optimizer unchanged; optimize_energy_distribution appends the result it
\* returns to solutions and changes no other field.
C13_Stateless ==
  [][/\ GreedyCallStep({"minimize_outage_impact", "optimize_load_balancing"})
          => UNCHANGED greedy_vars
     /\ GreedyCallStep({"optimize_energy_distribution"})
          => /\ solutions' = Append(solutions, result')
             /\ UNCHANGED greedy_debug_mode]_vars

\* get_all_solutions after an energy distribution and one further allocator
\* call: it observes the recorded distribution
C13_Witness ==
  /\ op = "get_all_solutions"
  /\ calls = MaxGreedyCalls
  /\ Len(result) > 0
  /\ result[1].total_assigned > 0

\* the sum of f[lo] .. f[hi], taken in halves
RECURSIVE SumRange(_, _, _)
SumRange(f, lo, hi) ==
  IF lo > hi THEN 0
  ELSE IF lo = hi THEN f[lo]
  ELSE SumRange(f, lo, (lo + hi) \div 2) + SumRange(f, (lo + hi) \div 2 + 1, hi)

\* the cost of holding capacity c[p] in each period: construction of the
\* initial capacity and of every expansion, operation in every period
SequenceCost(c, demand) ==
  SumRange([p \in 1 .. Len(c) |->
              construction_cost(IF p = 1 THEN c[1] ELSE c[p] - c[p - 1])
                + operational_cost(c[p], demand[p])],
           1, Len(c))

\* the non-decreasing capacity sequences over n periods within 0 .. m
CapacitySequences(n, m) ==
  {c \in [1 .. n -> 0 .. m] : \A p \in 2 .. n : c[p] >= c[p - 1]}

\* the sequences that are raised once, in period k, to a capacity held since
StepSequences(n, m) ==
  {[p \in 1 .. n |-> IF p < k THEN 0 ELSE c] : k \in 1 .. n, c \in 0 .. m}

\* the sequences the planner's choice is compared with: all of them on
\* short horizons, the single-step ones on long horizons
Alternatives(n, m) ==
  IF n <= MaxPeriods /\ m <= MaxCapacity THEN CapacitySequences(n, m)
  ELSE StepSequences(n, m)

PlanCapacities(plan) == [p \in 1 .. Len(plan) |-> plan[p].total_capacity]

\* C14: the total_cost returned by optimize_capacity_planning is the minimum,
\* over the non-decreasing capacity sequences within 0 .. maxCapacity, of the
\* construction cost of the initial capacity and of every later expansion
\* plus the operational cost of every period, and the capacity sequence of
\* the returned plan attains it.
C14_CapacityOptimal ==
  (IsCapacityCall /\ ValidCapacityArgs /\ result.outcome = "plan")
  => LET chosen == PlanCapacities(result.optimal_plan)
     IN /\ Len(chosen) = args.time_periods
        /\ \A p \in 1 .. Len(chosen) : chosen[p] \in 0 .. args.max_capacity
        /\ NonDecreasing(result.optimal_plan)
        /\ SequenceCost(chosen, args.demand_forecast) = result.total_cost
        /\ \A c \in Alternatives(args.time_periods, args.max_capacity) :
             result.total_cost <= SequenceCost(c, args.demand_forecast)

\* a plan that pays for an expansion after the first period, cheaper than
\* never building
C14_Witness ==
  /\ IsCapacityCall
  /\ ValidCapacityArgs
  /\ result.outcome = "plan"
  /\ \E p \in 2 .. Len(result.optimal_plan) :
       result.optimal_plan[p].expansion > 0
  /\ result.total_cost
       < SequenceCost([p \in 1 .. args.time_periods |-> 0],
                      args.demand_forecast)

\* C15: in every plan returned by optimize_capacity_planning, each entry's
\* operational_cost is the operational cost of that entry's total_capacity
\* under that entry's demand, period 0 with a positive expansion included.
C15_OperationalCostPerEntry ==
  (IsCapacityCall /\ result.outcome = "plan")
  => \A p \in 1 .. Len(result.optimal_plan) :
       result.optimal_plan[p].operational_cost
         = operational_cost(result.optimal_plan[p].total_capacity,
                            result.optimal_plan[p].demand)

\* C16: in every plan returned by optimize_capacity_planning, total_capacity
\* is the running sum of the expansions, and the total_capacity of the last
\* entry is the final_capacity reported.
C16_RunningSum ==
  (IsCapacityCall /\ result.outcome = "plan" /\ Len(result.optimal_plan) >= 1)
  => LET plan == result.optimal_plan
     IN /\ plan[1].total_capacity = plan[1].expansion
        /\ \A p \in 2 .. Len(plan) :
             plan[p].total_capacity
               = plan[p - 1].total_capacity + plan[p].expansion
        /\ plan[Len(plan)].total_capacity = result.final_capacity

\* a plan that builds its whole capacity in period 0 and keeps it
C16_Witness ==
  /\ IsCapacityCall
  /\ result.outcome = "plan"
  /\ Len(result.optimal_plan) > 1
  /\ result.optimal_plan[1].expansion > 0
  /\ result.optimal_plan[1].total_capacity = result.optimal_plan[1].expansion
  /\ result.final_capacity = result.optimal_plan[1].expansion

\* C17: when several terminal capacities have the same minimal cumulative
\* cost in the last period, final_capacity is the lowest of them: no capacity
\* sequence that ends below final_capacity is as cheap as total_cost.
C17_LowestOnTies ==
  (IsCapacityCall /\ ValidCapacityArgs /\ result.outcome = "plan")
  => \A c \in Alternatives(args.time_periods, args.max_capacity) :
       c[args.time_periods] < result.final_capacity
         => SequenceCost(c, args.demand_forecast) > result.total_cost

\* two terminal capacities tie at the minimum: never building, which is
\* reported, and a capacity built in period 0
C17_Witness ==
  /\ IsCapacityCall
  /\ ValidCapacityArgs
  /\ result.outcome = "plan"
  /\ result.final_capacity = 0
  /\ \E c \in StepSequences(args.time_periods, args.max_capacity) :
       /\ c[args.time_periods] > 0
       /\ SequenceCost(c, args.demand_forecast) = result.total_cost

\* immediate cost + future cost of an action, as the backward recurrence of
\* one unit adds them up for period t and health state h
ActionTotal(tbl, t, h, action, eq_type, maintenance_costs) ==
  cost_function(h, action, eq_type, maintenance_costs)
    + get(tbl.dp, t + 1, degradation_prob(h, action), 0)

\* maintaining and deferring give the same total
Tie(tbl, t, h, eq_type, maintenance_costs) ==
  ActionTotal(tbl, t, h, "mantener", eq_type, maintenance_costs)
    = ActionTotal(tbl, t, h, "no_mantener", eq_type, maintenance_costs)

\* on every tie of every unit's recurrence the given action is recorded,
\* and the schedule applies it where it passes through the tie
TiesRecord(action) ==
  \A e \in 1 .. Len(args.equipment_list) :
    LET eq_type == args.equipment_list[e][2]
        tbl == equipment_tables(eq_type, args.time_horizon,
                                args.maintenance_costs)
        schedule == result.maintenance_schedule[e].schedule
    IN \A t \in 0 .. (args.time_horizon - 2), h \in 0 .. (states - 1) :
         Tie(tbl, t, h, eq_type, args.maintenance_costs)
           => /\ tbl.decisions[t][h] = action
              /\ schedule[t + 1].state = h => schedule[t + 1].action = action

\* C18 as stated: whenever maintaining and deferring give the same total for
\* a period and health state, the action recorded, and applied in the forward
\* pass, is no_mantener (defer).
C18_TiesDefer_AsStated == IsMaintenanceCall => TiesRecord("no_mantener")

\* C18: whenever maintaining and deferring give the same total for a period
\* and health state, the action recorded, and applied in the forward pass, is
\* mantener (maintain), the first of the two actions tried.
C18_TiesMaintain == IsMaintenanceCall => TiesRecord("mantener")

\* a schedule that passes through a tie at a positive total and maintains
C18_Witness ==
  /\ IsMaintenanceCall
  /\ \E e \in 1 .. Len(args.equipment_list) :
       LET eq_type == args.equipment_list[e][2]
           tbl == equipment_tables(eq_type, args.time_horizon,
                                   args.maintenance_costs)
           schedule == result.maintenance_schedule[e].schedule
       IN \E t \in 0 .. (args.time_horizon - 2) :
            /\ schedule[t + 1].state \in 0 .. (states - 1)
            /\ Tie(tbl, t, schedule[t + 1].state, eq_type,
                   args.maintenance_costs)
            /\ schedule[t + 1].action = "mantener"
            /\ schedule[t + 1].cost > 0

\* the cached calls of the recursion that branched (the project fits) and
\* found inclusion and exclusion of equal benefit
TiedCalls ==
  {key \in DOMAIN cache :
     /\ ~base_case(key[1], key[2])
     /\ key[3][key[2]][1] <= key[1]
     /\ cache[<<key[1] - key[3][key[2]][1], key[2] - 1, key[3]>>][1]
          + key[3][key[2]][2]
          = cache[<<key[1], key[2] - 1, key[3]>>][1]}

\* C19: in the knapsack recursion, whenever including the current project and
\* excluding it give the same total benefit, the project is excluded: the
\* call returns the benefit and the selection of the exclusion branch.
C19_TiesExclude ==
  IsEnergyCall
  => \A key \in TiedCalls :
       cache[key] = cache[<<key[1], key[2] - 1, key[3]>>]

\* the outermost call ties, and returns the non-empty selection of the
\* exclusion branch, without the last project
C19_Witness ==
  /\ IsEnergyCall
  /\ result.outcome = "result"
  /\ \E key \in TiedCalls :
       /\ key = cache_key(args.total_budget, Len(args.projects),
                          to_projects_tuple(args.projects))
       /\ cache[key][2] # << >>
       /\ cache[key] = cache[<<key[1], key[2] - 1, key[3]>>]
       /\ Len(result.selected_projects) = Len(cache[key][2])

\* the action sequences for the periods t .. time_horizon - 2
ActionSequences(t, time_horizon) ==
  [t .. (time_horizon - 2) -> {"mantener", "no_mantener"}]

\* the immediate costs of an action sequence summed from period t in health h
RECURSIVE PathCost(_, _, _, _, _, _)
PathCost(q, t, time_horizon, h, eq_type, maintenance_costs) ==
  IF t > time_horizon - 2 THEN 0
  ELSE cost_function(h, q[t], eq_type, maintenance_costs)
         + PathCost(q, t + 1, time_horizon, degradation_prob(h, q[t]), eq_type,
                    maintenance_costs)

\* C20: for every equipment unit, every non-final period t and every health
\* state h in 0 .. 4, the action recorded in the decision table minimises
\* the immediate cost plus the table value of period t + 1 at the state the
\* action leads to, and the table value at (t, h) is the minimum over all
\* action sequences of the immediate costs summed over periods t ..
\* horizon-2 (the final period's value is 0).
C20_TableOptimal ==
  IsMaintenanceCall
  => \A eq_type \in {args.equipment_list[e][2] :
                       e \in 1 .. Len(args.equipment_list)} :
       LET tbl == equipment_tables(eq_type, args.time_horizon,
                                   args.maintenance_costs)
       IN /\ args.time_horizon >= 1
            => \A h \in 0 .. (states - 1) : tbl.dp[args.time_horizon - 1][h] = 0
          /\ \A t \in 0 .. (args.time_horizon - 2), h \in 0 .. (states - 1) :
               LET value == tbl.dp[t][h]
                   sums == {PathCost(q, t, args.time_horizon, h, eq_type,
                                     args.maintenance_costs) :
                              q \in ActionSequences(t, args.time_horizon)}
               IN /\ value = ActionTotal(tbl, t, h, tbl.decisions[t][h],
                                         eq_type, args.maintenance_costs)
                  /\ \A action \in {"mantener", "no_mantener"} :
                       value <= ActionTotal(tbl, t, h, action, eq_type,
                                            args.maintenance_costs)
                  /\ value \in sums
                  /\ \A sum \in sums : value <= sum

\* a table over several periods in which the best first action depends on
\* the health state and the best total is positive
C20_Witness ==
  /\ IsMaintenanceCall
  /\ args.time_horizon >= 3
  /\ \E e \in 1 .. Len(args.equipment_list) :
       LET tbl == equipment_tables(args.equipment_list[e][2], args.time_horizon,
                                   args.maintenance_costs)
       IN \E h1, h2 \in 0 .. (states - 1) :
            /\ tbl.decisions[0][h1] = "mantener"
            /\ tbl.decisions[0][h2] = "no_mantener"
            /\ tbl.dp[0][h1] > 0
            /\ tbl.dp[0][h2] > 0

\* the backward table's value at period 0 for the initial health of each
\* of the units e .. Len(equipment_list), summed
RECURSIVE SumTableValues(_)
SumTableValues(e) ==
  IF e > Len(args.equipment_list) THEN 0
  ELSE get(equipment_tables(args.equipment_list[e][2], args.time_horizon,
                            args.maintenance_costs).dp,
           0, args.equipment_list[e][3], 0)
         + SumTableValues(e + 1)

\* C21: the total_cost returned by optimize_maintenance_schedule is the sum,
\* over the units, of the backward table's minimum cumulative cost at period
\* 0 and the unit's initial health: the forward pass charges nothing that
\* the table did not account for.
C21_TotalIsTableMinimum ==
  (IsMaintenanceCall /\ ValidHealthArgs /\ args.time_horizon >= 1)
  => result.total_cost = SumTableValues(1)

\* C22: in every schedule of optimize_maintenance_schedule the entry at
\* period 0 has the unit's initial health, and after an entry with state h
\* the next entry has state min(4, h + 1) when the action is no_mantener
\* (defer) and max(0, h - 1) when it is mantener (maintain).
C22_DeterministicTransition ==
  IsMaintenanceCall
  => \A e \in 1 .. Len(result.maintenance_schedule) :
       LET schedule == result.maintenance_schedule[e].schedule
       IN /\ Len(schedule) >= 1
            => schedule[1].state = args.equipment_list[e][3]
          /\ \A t \in 1 .. (Len(schedule) - 1) :
               LET h == schedule[t].state
               IN /\ schedule[t].action \in {"mantener", "no_mantener"}
                  /\ schedule[t].action = "no_mantener"
                       => schedule[t + 1].state = (IF h + 1 > 4 THEN 4 ELSE h + 1)
                  /\ schedule[t].action = "mantener"
                       => schedule[t + 1].state = (IF h - 1 < 0 THEN 0 ELSE h - 1)

\* a schedule that improves by maintaining and one that worsens by
\* deferring, both away from the ends of the range
C22_Witness ==
  /\ IsMaintenanceCall
  /\ \E e \in 1 .. Len(result.maintenance_schedule) :
       LET schedule == result.maintenance_schedule[e].schedule
       IN \E t \in 1 .. (Len(schedule) - 1) :
            /\ schedule[t].action = "mantener"
            /\ schedule[t].state \in 1 .. 4
            /\ schedule[t + 1].state = schedule[t].state - 1
  /\ \E e \in 1 .. Len(result.maintenance_schedule) :
       LET schedule == result.maintenance_schedule[e].schedule
       IN \E t \in 1 .. (Len(schedule) - 1) :
            /\ schedule[t].action = "no_mantener"
            /\ schedule[t].state \in 0 .. 3
            /\ schedule[t + 1].state = schedule[t].state + 1

\* the schedule the unit gets when it is the only one in the list
ScheduleAlone(unit) ==
  optimize_maintenance_schedule(<<unit>>, args.time_horizon,
                                args.maintenance_costs)
    .maintenance_schedule[1].schedule

\* C23: the schedule (states, actions, costs) of a unit depends only on its
\* type, its initial health, the horizon and the rates: whatever other
\* units are in the list, before or after it, it is the schedule the unit
\* gets alone.
C23_UnitsIndependent ==
  IsMaintenanceCall
  => \A e \in 1 .. Len(args.equipment_list) :
       result.maintenance_schedule[e].schedule
         = ScheduleAlone(args.equipment_list[e])

\* two units of different types and health that get different actions in
\* the first period, the second as it would alone
C23_Witness ==
  /\ IsMaintenanceCall
  /\ Len(args.equipment_list) = 2
  /\ args.time_horizon >= 2
  /\ args.equipment_list[1][2] # args.equipment_list[2][2]
  /\ args.equipment_list[1][3] # args.equipment_list[2][3]
  /\ result.maintenance_schedule[1].schedule[1].action
       # result.maintenance_schedule[2].schedule[1].action
  /\ result.maintenance_schedule[2].schedule
       = ScheduleAlone(args.equipment_list[2])

\* the positions, in the input list, of the projects the recursion includes
\* from the call (budget, project_index) down, read off the cached calls in
\* the order in which their names are appended
RECURSIVE ChosenPositions(_, _, _)
ChosenPositions(budget, project_index, projects_tuple) ==
  IF base_case(budget, project_index) THEN << >>
  ELSE LET costo == projects_tuple[project_index][1]
           beneficio == projects_tuple[project_index][2]
       IN IF costo > budget
          THEN ChosenPositions(budget, project_index - 1, projects_tuple)
          ELSE IF cache[<<budget - costo, project_index - 1, projects_tuple>>][1]
                    + beneficio
                    > cache[<<budget, project_index - 1, projects_tuple>>][1]
          THEN Append(ChosenPositions(budget - costo, project_index - 1,
                                      projects_tuple), project_index)
          ELSE ChosenPositions(budget, project_index - 1, projects_tuple)

\* C24: the selection record of optimize_energy_projects is consistent with
\* the recursion for every project list, also when two projects share a
\* name: selected_projects are the projects, by position in the input list,
\* that the recursion chose, total_benefit is the sum of their benefits and
\* total_cost the sum of their costs.
C24_SelectionConsistent ==
  (IsEnergyCall /\ result.outcome = "result")
  => LET chosen == ChosenPositions(args.total_budget, Len(args.projects),
                                   to_projects_tuple(args.projects))
     IN /\ result.selected_projects
             = [n \in 1 .. Len(chosen) |-> project_detail(args.projects[chosen[n]])]
        /\ result.total_benefit
             = SumSeq([n \in 1 .. Len(chosen) |-> args.projects[chosen[n]][2]], 1)
        /\ result.total_cost
             = SumSeq([n \in 1 .. Len(chosen) |-> args.projects[chosen[n]][1]], 1)

IsDistributionCall == op = "optimize_energy_distribution"
IsOutageCall == op = "minimize_outage_impact"
IsLoadCall == op = "optimize_load_balancing"

\* the regions of the call with population > 0, in input order
Populated == SelectSeq(args.regions_demand, LAMBDA r : r[3] > 0)

\* region i of Populated is served before region j: higher priority, or the
\* same priority and a lower demand per inhabitant, or the same of both and
\* earlier in the input
ServedBefore(i, j) ==
  LET a == Populated[i]
      b == Populated[j]
  IN \/ a[4] > b[4]
     \/ a[4] = b[4] /\ a[2] * b[3] < b[2] * a[3]
     \/ a[4] = b[4] /\ a[2] * b[3] = b[2] * a[3] /\ i < j

Assigned(i) == result.distribution[Populated[i][1]]

\* what is left of the supply when region i of Populated is served
RemainingAt(i) ==
  args.available_energy
    - SumSeq([j \in 1 .. Len(Populated) |->
                IF ServedBefore(j, i) THEN Assigned(j) ELSE 0], 1)

PerHour(i) ==
  LET o == args.outages_data[i]
  IN IF o[2] > 0 THEN (o[3] * o[4] * o[2]) \div o[2] ELSE inf

\* outage i is considered before outage j: lower impact per hour, or the
\* same and earlier in the input
ConsideredBefore(i, j) ==
  \/ PerHour(i) < PerHour(j)
  \/ PerHour(i) = PerHour(j) /\ i < j

\* outage i is among the selected ones (sectors are different)
Accepted(i) ==
  \E k \in 1 .. Len(result.selected_outages) :
    result.selected_outages[k].sector = args.outages_data[i][1]

\* the capacity left when outage i is considered
CapacityAt(i) ==
  args.maintenance_capacity
    - SumSeq([j \in 1 .. Len(args.outages_data) |->
                IF ConsideredBefore(j, i) /\ Accepted(j)
                THEN args.outages_data[j][2] ELSE 0], 1)

\* C26: minimize_outage_impact considers the outages by ascending impact per
\* hour and accepts an outage exactly when its duration is <= the capacity
\* left at its turn; the durations of the selected outages add up to
\* total_duration, total_duration + remaining_capacity is the capacity
\* given, and total_duration does not exceed it (capacity non-negative,
\* sectors different).
C26_FirstFitOutages ==
  IsOutageCall
  => /\ \A i \in 1 .. Len(args.outages_data) :
          Accepted(i) <=> args.outages_data[i][2] <= CapacityAt(i)
     /\ \A k \in 1 .. Len(result.selected_outages) :
          \E i \in 1 .. Len(args.outages_data) :
            /\ result.selected_outages[k].sector = args.outages_data[i][1]
            /\ result.selected_outages[k].duracion = args.outages_data[i][2]
            /\ \A l \in (k + 1) .. Len(result.selected_outages) :
                 \E j \in 1 .. Len(args.outages_data) :
                   /\ result.selected_outages[l].sector
                        = args.outages_data[j][1]
                   /\ ConsideredBefore(i, j)
     /\ result.total_duration
          = SumSeq([k \in 1 .. Len(result.selected_outages) |->
                      result.selected_outages[k].duracion], 1)
     /\ result.total_duration + result.remaining_capacity
          = args.maintenance_capacity
     /\ args.maintenance_capacity >= 0
          => result.total_duration <= args.maintenance_capacity

\* an outage that does not fit is passed over and one considered after it
\* is accepted
C26_Witness ==
  /\ IsOutageCall
  /\ \E i, j \in 1 .. Len(args.outages_data) :
       /\ ConsideredBefore(i, j)
       /\ ~Accepted(i)
       /\ Accepted(j)
       /\ args.outages_data[j][2] > 0
       /\ result.remaining_capacity = 0

\* generator i is dispatched before generator j: lower cost per MWh, or
\* the same cost and earlier in the input
DispatchedBefore(i, j) ==
  \/ args.generators_data[i][3] < args.generators_data[j][3]
  \/ /\ args.generators_data[i][3] = args.generators_data[j][3]
     /\ i < j

\* the generation assigned to generator i: that of its entry in
\* selected_generators, nothing if it has none (plants are different)
Generation(i) ==
  LET entries == {k \in 1 .. Len(result.selected_generators) :
                    result.selected_generators[k].planta
                      = args.generators_data[i][1]}
  IN IF entries = {} THEN 0
     ELSE result.selected_generators[CHOOSE k \in entries : TRUE]
            .generation_assigned

\* the demand left when generator i is dispatched
DemandAt(i) ==
  args.total_demand
    - SumSeq([j \in 1 .. Len(args.generators_data) |->
                IF DispatchedBefore(j, i) THEN Generation(j) ELSE 0], 1)

\* C27: optimize_load_balancing dispatches the generators by ascending cost
\* per MWh and assigns each min(capacity, remaining demand); a generator is
\* assigned a positive amount only if every cheaper one is assigned its
\* full capacity, total_generation is min(total_demand, sum of capacities)
\* and total_generation + remaining_demand = total_demand (demand and
\* capacities non-negative, plants different).
C27_MeritOrderDispatch ==
  IsLoadCall
  => LET n == Len(args.generators_data)
         capacities == SumSeq([i \in 1 .. n |-> args.generators_data[i][2]], 1)
     IN /\ \A i \in 1 .. n :
             /\ args.total_demand >= 0
                  => Generation(i)
                       = (IF args.generators_data[i][2] <= DemandAt(i)
                          THEN args.generators_data[i][2] ELSE DemandAt(i))
             /\ Generation(i) > 0
                  => \A j \in 1 .. n :
                       args.generators_data[j][3] < args.generators_data[i][3]
                         => Generation(j) = args.generators_data[j][2]
        /\ \A k \in 1 .. (Len(result.selected_generators) - 1) :
             result.selected_generators[k].costo_mwh
               <= result.selected_generators[k + 1].costo_mwh
        /\ result.total_generation
             = SumSeq([i \in 1 .. n |-> Generation(i)], 1)
        /\ args.total_demand >= 0
             => result.total_generation
                  = (IF args.total_demand <= capacities
                     THEN args.total_demand ELSE capacities)
        /\ result.total_generation + result.remaining_demand
             = args.total_demand

\* the cheaper plant, listed second, runs at full capacity and the dearer
\* one covers the rest of the demand with a part of its capacity
C27_Witness ==
  /\ IsLoadCall
  /\ Len(args.generators_data) = 2
  /\ args.generators_data[2][3] < args.generators_data[1][3]
  /\ Generation(2) = args.generators_data[2][2]
  /\ Generation(2) > 0
  /\ Generation(1) > 0
  /\ Generation(1) < args.generators_data[1][2]
  /\ result.remaining_demand = 0

\* ------------------------------------------------------------------
\* MemoizationDecorator: a cache with a size limit, a time to live and
\* least-recently-used eviction around one wrapped function
\* ------------------------------------------------------------------

\* the arguments the wrapper is called with: what str() prints of them and
\* which object they are
MemoArgs == {<<"a", 1>>, <<"a", 2>>, <<"b", 1>>, <<"c", 1>>}

\* the ttl values of the constructor: None, or a number of clock units
MemoTtls == {<< >>} \cup {<<n>> : n \in 0 .. MaxTtl}

\* the key is a digest of the printed arguments: arguments that print alike
\* share it
_make_key(call_args) == call_args[1]

\* the wrapped function: any function, its n-th run may return a new value
func(call_args, n) == <<call_args, n>>

\* the keys of a dict kept as a sequence of (key, value) in insertion order
dict_keys(d) == {d[i][1] : i \in 1 .. Len(d)}

\* d[key] = value: a present key keeps its place, a new one goes last
dict_store(d, key, value) ==
  IF key \in dict_keys(d)
    THEN [i \in 1 .. Len(d) |-> IF d[i][1] = key THEN <<key, value>> ELSE d[i]]
    ELSE Append(d, <<key, value>>)

\* del d[key]
dict_delete(d, key) == SelectSeq(d, LAMBDA e : e[1] # key)

\* del self.cache[key]
cache_delete(c, key) == [k \in DOMAIN c \ {key} |-> c[k]]

\* self.cache[key] = entry
cache_store(c, key, entry) ==
  [k \in DOMAIN c \cup {key} |-> IF k = key THEN entry ELSE c[k]]

\* min(self.access_times.keys(), key=...): the first key, in dict order,
\* with the smallest access time
lru_key(times) ==
  times[CHOOSE i \in 1 .. Len(times) :
          \A j \in 1 .. Len(times) :
            \/ times[i][2] < times[j][2]
            \/ times[i][2] = times[j][2] /\ i <= j][1]

\* _evict_lru: nothing on an empty cache, else the lru_key entry goes
_evict_lru(c, times) ==
  IF Len(times) = 0
    THEN [cache |-> c, access_times |-> times]
    ELSE [cache |-> cache_delete(c, lru_key(times)),
          access_times |-> dict_delete(times, lru_key(times))]

\* the strict test would keep an entry whose age equals the time to live
is_fresh_inclusive(time_to_live, current_time, cached_time) ==
  Len(time_to_live) = 0 \/ (current_time - cached_time) <= time_to_live[1]

\* self.ttl is None or (current_time - cached_time) < self.ttl
is_fresh(time_to_live, current_time, cached_time) ==
  Len(time_to_live) = 0 \/ (current_time - cached_time) < time_to_live[1]

\* the miss branch of wrapper: c and times are the cache once an
\* expired entry is gone
wrapper_miss(c, times, the_key, current_time, fresh_result) ==
  LET room == IF Cardinality(DOMAIN c) >= max_size
                THEN _evict_lru(c, times)
                ELSE [cache |-> c, access_times |-> times]
  IN  [cache |-> cache_store(room.cache, the_key,
                             <<current_time, fresh_result>>),
       access_times |-> dict_store(room.access_times, the_key,
                                   current_time),
       hit_count |-> hit_count,
       miss_count |-> miss_count + 1,
       value |-> fresh_result,
       ran |-> TRUE]

\* wrapper: what one call leaves in the decorator and what it returns
wrapper(call_args, current_time, fresh_result) ==
  LET the_key == _make_key(call_args)
  IN  IF the_key \in DOMAIN memo_cache
        THEN IF is_fresh(ttl, current_time, memo_cache[the_key][1])
               THEN [cache |-> memo_cache,
                     access_times |-> dict_store(access_times, the_key,
                                                 current_time),
                     hit_count |-> hit_count + 1,
                     miss_count |-> miss_count,
                     value |-> memo_cache[the_key][2],
                     ran |-> FALSE]
               ELSE wrapper_miss(cache_delete(memo_cache, the_key),
                                 dict_delete(access_times, the_key),
                                 the_key, current_time, fresh_result)
        ELSE wrapper_miss(memo_cache, access_times, the_key, current_time,
                          fresh_result)

\* the order of last use: a used key goes last, a key no longer cached
\* leaves
touch(order, kept, key) ==
  Append(SelectSeq(order, LAMBDA k : k \in kept /\ k # key), key)

\* which branch of wrapper a call took
path(call_args, current_time) ==
  IF _make_key(call_args) \notin DOMAIN memo_cache THEN "miss"
  ELSE IF is_fresh(ttl, current_time, memo_cache[_make_key(call_args)][1])
         THEN "hit"
         ELSE "expired"

\* MemoizationDecorator(max_size, ttl), before the wrapper is first called
Memo_init ==
  /\ op = "none"
  /\ \E size \in 0 .. MaxSize, time_to_live \in MemoTtls :
       /\ max_size' = size
       /\ ttl' = time_to_live
       /\ args' = <<size, time_to_live>>
  /\ memo_cache' = EmptyDict
  /\ access_times' = << >>
  /\ hit_count' = 0
  /\ miss_count' = 0
  /\ op' = "__init__"
  /\ result' = NoCall
  /\ UNCHANGED <<now, invocations, completed, recency>>
  /\ UNCHANGED <<memo_tables, solutions_cache, debug_mode, cache, calls,
                 before, thread_vars, greedy_vars>>

\* one call of the wrapper, the clock having advanced by tick
Memo_wrapper ==
  /\ calls < MaxMemoCalls
  /\ \E call_args \in MemoArgs, tick \in 0 .. MaxTick :
       /\ now + tick <= MaxTime
       /\ LET current_time == now + tick
              out == wrapper(call_args, current_time,
                             func(call_args, invocations + 1))
          IN  /\ now' = current_time
              /\ memo_cache' = out.cache
              /\ access_times' = out.access_times
              /\ hit_count' = out.hit_count
              /\ miss_count' = out.miss_count
              /\ invocations' = IF out.ran THEN invocations + 1
                                           ELSE invocations
              /\ recency' = touch(recency, DOMAIN out.cache,
                                  _make_key(call_args))
              /\ args' = <<call_args, current_time>>
              /\ result' = [outcome |-> "returned", value |-> out.value,
                            path |-> path(call_args, current_time)]
  /\ op' = "wrapper"
  /\ calls' = calls + 1
  /\ completed' = completed + 1
  /\ UNCHANGED <<max_size, ttl>>
  /\ UNCHANGED <<memo_tables, solutions_cache, debug_mode, cache, before,
                 thread_vars, greedy_vars>>

\* wrapper.cache_info()
Memo_cache_info ==
  /\ op' = "cache_info"
  /\ args' = << >>
  /\ result' = [outcome |-> "returned",
                value |-> [hits |-> hit_count,
                           misses |-> miss_count,
                           hit_rate |-> <<hit_count,
                                          IF hit_count + miss_count > 1
                                            THEN hit_count + miss_count
                                            ELSE 1>>,
                           cache_size |-> Cardinality(DOMAIN memo_cache),
                           max_size |-> max_size]]
  /\ UNCHANGED memo_vars
  /\ UNCHANGED <<memo_tables, solutions_cache, debug_mode, cache, calls,
                 before, thread_vars, greedy_vars>>

\* wrapper.cache_clear(), that is _clear_cache
Memo_cache_clear ==
  /\ memo_cache' = EmptyDict
  /\ access_times' = << >>
  /\ hit_count' = 0
  /\ miss_count' = 0
  /\ completed' = 0
  /\ recency' = << >>
  /\ op' = "cache_clear"
  /\ args' = << >>
  /\ result' = NoCall
  /\ UNCHANGED <<max_size, ttl, now, invocations>>
  /\ UNCHANGED <<memo_tables, solutions_cache, debug_mode, cache, calls,
                 before, thread_vars, greedy_vars>>

NextMemo ==
  \/ Memo_init
  \/ Memo_wrapper
  \/ Memo_cache_info
  \/ Memo_cache_clear

SpecMemo == Init /\ [][NextMemo]_vars

\* a step that is one call of the wrapper
WrapperStep == op' = "wrapper" /\ calls' = calls + 1

\* the key and the clock reading of the call a WrapperStep makes
CalledKey == _make_key(args'[1])
CalledAt == args'[2]

\* C28: whatever max_size the decorator was constructed with, and whatever
\* calls and cache_clear were made, the cache never holds more than
\* max_size entries
C28_SizeWithinMax == Cardinality(DOMAIN memo_cache) <= max_size

C30_EvictsLeastRecentlyUsed ==
  [][WrapperStep /\ CalledKey \notin DOMAIN memo_cache
       /\ Cardinality(DOMAIN memo_cache) = max_size =>
          /\ Len(recency) > 0
          /\ DOMAIN memo_cache' =
               (DOMAIN memo_cache \ {recency[1]}) \cup {CalledKey}
          /\ \A k \in DOMAIN memo_cache \ {recency[1]} :
               memo_cache'[k] = memo_cache[k]]_vars

====
